---- MODULE Spec2Model ----
(***************************************************************************)
(* Model of the AWS machine provider: the AWSMachine lifecycle reconciler  *)
(* (controllers/awsmachine_controller.go, held in                          *)
(* src/controllers/node_controller.go from line 201 on), the provider      *)
(* identity codec (internal/aws/util.go) and the compute backend adapter   *)
(* (internal/aws/ec2.go).                                                  *)
(*                                                                         *)
(* Strings the code takes apart (provider ids, zones, instance ids) are    *)
(* sequences of one-character strings.  A Go *string is a sequence of      *)
(* length at most one: <<>> is nil, <<s>> points to s.                     *)
(***************************************************************************)
EXTENDS Integers, Sequences, FiniteSets, TLC

\* --------------------------------------------------------------- bounds

\* The backend accepts this many RunInstances calls; a further one fails
\* (instance limit exceeded).
MaxInstances == 2

\* ------------------------------------------------------ program constants

\* RequeueAfter of the AwaitingBootstrapReady branch, in seconds.
RequeueConfigNotReady == 5

\* RequeueAfter carried by the RequeueAfterError of reconcileDelete, in seconds.
RequeueTerminating == 10

\* ---------------------------------------------------------------- strings

LowerLetters ==
    {"a", "b", "c", "d", "e", "f", "g", "h", "i", "j", "k", "l", "m",
     "n", "o", "p", "q", "r", "s", "t", "u", "v", "w", "x", "y", "z"}

Digits == <<"1", "2", "3", "4", "5", "6", "7", "8", "9">>

\* Index of the first occurrence of character c in s, 0 when there is none
\* (strings.Index / the leftmost position a regexp can anchor on).
IndexOf(s, c) ==
    IF \E i \in 1..Len(s) : s[i] = c
    THEN CHOOSE i \in 1..Len(s) : s[i] = c /\ \A j \in 1..(i - 1) : s[j] # c
    ELSE 0

\* strings.Split(s, sep) for a one-character separator.
RECURSIVE Split(_, _)
Split(s, sep) ==
    LET i == IndexOf(s, sep)
    IN  IF i = 0
        THEN <<s>>
        ELSE <<SubSeq(s, 1, i - 1)>> \o Split(SubSeq(s, i + 1, Len(s)), sep)

\* A nil pointer, a pointer to v, and the dereference.
Nil == <<>>
Ptr(v) == <<v>>
Deref(p) == p[1]

\* ------------------------------------------------- provider identity codec

\* re = `[a-z]$` replaced by "": one trailing lower-case letter is stripped.
ParseRegionFromAZ(s) ==
    IF Len(s) > 0 /\ s[Len(s)] \in LowerLetters
    THEN SubSeq(s, 1, Len(s) - 1)
    ELSE s

\* providerIDRegex = "^[^:]+://.*[^/]$": a non-empty colon-free prefix, then
\* "://" (so the colon is the first one of s), then at least one more
\* character, the last of which is not a slash.
VerifyProviderID(s) ==
    LET c == IndexOf(s, ":")
    IN  /\ c >= 2
        /\ Len(s) >= c + 3
        /\ s[c + 1] = "/"
        /\ s[c + 2] = "/"
        /\ s[Len(s)] # "/"

\* The (nil, error) return of ParseProviderID.
NoProviderID == [ok |-> FALSE, AvailabilityZone |-> <<>>, Region |-> <<>>, InstanceID |-> <<>>]

\* ParseProviderID: ok = FALSE is the (nil, error) return.
ParseProviderID(s) ==
    IF ~VerifyProviderID(s)
    THEN NoProviderID
    ELSE LET ss == Split(s, "/")
             az == ss[Len(ss) - 1]
         IN  [ok |-> TRUE,
              AvailabilityZone |-> az,
              Region |-> ParseRegionFromAZ(az),
              InstanceID |-> ss[Len(ss)]]

\* Mutant: the zone and the instance id are written in the wrong order.
FormatProviderID_Swapped(zone, id) ==
    <<"a", "w", "s", ":", "/", "/", "/">> \o id \o <<"/">> \o zone

\* fmt.Sprintf("aws:///%s/%s", zone, id) of the Provisioning branch.
FormatProviderID(zone, id) ==
    <<"a", "w", "s", ":", "/", "/", "/">> \o zone \o <<"/">> \o id

\* ------------------------------------------------------------ error values

\* A Go error: kind "none" is nil.  RequeueAfter is the delay carried by a
\* mapierrors.RequeueAfterError, state the state string named by the
\* "unknown state" error of reconcileDelete.
Error(kind, after, state) == [kind |-> kind, RequeueAfter |-> after, state |-> state]
NoErr == Error("none", 0, "")
APIError == Error("APIError", 0, "")
BackendError == Error("BackendError", 0, "")
PatchError == Error("PatchError", 0, "")
InvalidProviderIDError == Error("InvalidProviderID", 0, "")
RequeueAfterError == Error("RequeueAfter", RequeueTerminating, "")
UnknownStateError(state) == Error("UnknownState", 0, state)
MissingCloudConfigError == Error("MissingCloudConfig", 0, "")
NoSubnetError == Error("NoSubnet", 0, "")

\* ------------------------------------------------------------ the objects

\* Names of the AWSMachine objects.
AMNames == {"am1"}

\* The availability zone the backend places instances in, and the id of the
\* k-th instance it launches.
Zone == <<"e", "1", "a">>
InstanceId(k) == <<"i", Digits[k]>>

\* Provider ids an AWSMachine may be created with: none (the record is to be
\* provisioned), a string ParseProviderID rejects, and the well-formed id of
\* an instance the backend has no record of (a backfilled record).
MalformedID == <<"a", "w", "s", ":", "i", "0">>
ForeignID == FormatProviderID(Zone, <<"i", "0">>)
InitialProviderIDs == {Nil, Ptr(MalformedID), Ptr(ForeignID)}

\* The states of ec2.InstanceStateName*, "other" for a state string outside
\* that enumeration, "none" for an instance id the backend never issued and
\* "gone" for a terminated instance the backend has dropped.
KnownStates == {"pending", "running", "shutting-down", "terminated", "stopping", "stopped"}
LiveStates == {"pending", "running", "stopping", "stopped"}

\* The subnets of the VPC, as DescribeSubnets returns them.
Subnets ==
    << [SubnetId |-> "subnet-a", MapPublicIpOnLaunch |-> FALSE, AvailableIpAddressCount |-> 4],
       [SubnetId |-> "subnet-b", MapPublicIpOnLaunch |-> FALSE, AvailableIpAddressCount |-> 0],
       [SubnetId |-> "subnet-c", MapPublicIpOnLaunch |-> TRUE, AvailableIpAddressCount |-> 0] >>

\* An AWSMachine that does not exist in the API server.
AbsentMachine ==
    [exists |-> FALSE, DeletionTimestamp |-> FALSE, Finalizer |-> FALSE,
     OwnerRef |-> FALSE, ProviderID |-> Nil, PublicIP |-> FALSE,
     FailureMessage |-> FALSE, Ready |-> FALSE, InstanceState |-> "",
     Addresses |-> <<>>]

NoInstance == [state |-> "none", public |-> FALSE, launchedFor |-> ""]

VARIABLES
    awsmachines,  \* the AWSMachine objects held by the API server, by name
    machine,      \* the owning Machine object held by the API server
    config,       \* the owner's Config and its bootstrap secret
    ec2,          \* the compute backend: instance number -> instance
    rec,          \* the AWSMachineReconciler invocation in progress or last ended
    fn,           \* a function of the codec or the adapter applied on its own
    node,         \* the Node object held by the API server
    nrec          \* the NodeReconciler invocation in progress or last ended

vars == <<awsmachines, machine, config, ec2, rec, fn, node, nrec>>

\* ------------------------------------------------- compute backend adapter

\* The network interfaces DescribeInstances / RunInstances report for an
\* instance: one primary interface while the instance holds resources, none
\* once it is terminated.
NetworkInterfaces(inst) ==
    IF inst.state \in {"terminated", "gone", "none"}
    THEN <<>>
    ELSE << [Association |-> inst.public] >>

\* The numbers of the instances with this id that the backend has issued
\* (at most one).
InstancesWithId(e, id) == {k \in DOMAIN e : InstanceId(k) = id /\ e[k].state # "none"}

\* svc.DescribeInstancesWithContext: an error code, or the reservations.  An
\* id never issued gives InvalidInstanceID.NotFound; a dropped instance gives
\* an empty reservation list.
DescribeInstancesResponse(e, failed, id) ==
    LET Response(ks) ==
            IF failed THEN [code |-> "RequestError", instances |-> {}]
            ELSE IF ks = {} THEN [code |-> "InvalidInstanceID.NotFound", instances |-> {}]
            ELSE [code |-> "", instances |-> {k \in ks : e[k].state # "gone"}]
    IN  Response(InstancesWithId(e, id))

\* Mutant: the InvalidInstanceID.NotFound code is returned as an error.
DescribeInstance_NotFoundIsError(e, failed, id) ==
    LET Result(resp) ==
            IF resp.code # ""
            THEN [instance |-> 0, exists |-> FALSE, err |-> BackendError]
            ELSE IF resp.instances # {}
                 THEN [instance |-> CHOOSE k \in resp.instances : TRUE,
                       exists |-> TRUE, err |-> NoErr]
                 ELSE [instance |-> 0, exists |-> FALSE, err |-> NoErr]
    IN  Result(DescribeInstancesResponse(e, failed, id))

\* DescribeInstance: (instance, exists, err); instance 0 is the nil pointer.
DescribeInstance(e, failed, id) ==
    LET Result(resp) ==
            IF resp.code # ""
            THEN IF resp.code = "InvalidInstanceID.NotFound"
                 THEN [instance |-> 0, exists |-> FALSE, err |-> NoErr]
                 ELSE [instance |-> 0, exists |-> FALSE, err |-> BackendError]
            ELSE IF resp.instances # {}
                 THEN [instance |-> CHOOSE k \in resp.instances : TRUE,
                       exists |-> TRUE, err |-> NoErr]
                 ELSE [instance |-> 0, exists |-> FALSE, err |-> NoErr]
    IN  Result(DescribeInstancesResponse(e, failed, id))

\* DescribeInstanceStatus: (state, err).
DescribeInstanceStatus(e, failed, id) ==
    LET Result(d) ==
            IF d.err # NoErr THEN [state |-> "", err |-> d.err]
            ELSE IF ~d.exists THEN [state |-> "terminated", err |-> NoErr]
            ELSE [state |-> e[d.instance].state, err |-> NoErr]
    IN  Result(DescribeInstance(e, failed, id))

\* TerminateInstance: (err, backend afterwards).  The backend starts shutting
\* a live instance down.
TerminateInstance(e, failed, id) ==
    LET Result(ks) ==
            IF failed \/ ks = {} \/ \A k \in ks : e[k].state = "gone"
            THEN [err |-> BackendError, ec2 |-> e]
            ELSE [err |-> NoErr,
                  ec2 |-> [k \in DOMAIN e |->
                             IF k \in ks /\ e[k].state \in LiveStates
                             THEN [e[k] EXCEPT !.state = "shutting-down"]
                             ELSE e[k]]]
    IN  Result(InstancesWithId(e, id))

\* Mutant: a subnet without a free address is kept.
EligibleOf_FullSubnetsKept(subnets, publicIP) ==
    LET kept == SelectSeq(subnets, LAMBDA s : s.MapPublicIpOnLaunch = publicIP)
    IN  [i \in 1..Len(kept) |-> kept[i].SubnetId]

\* The ids of the subnets of a DescribeSubnets response that LaunchInstance
\* may pick from: those whose public-IP-on-launch flag equals the machine's
\* PublicIP and that have a free address (lines 93-101).
EligibleOf(subnets, publicIP) ==
    LET kept == SelectSeq(subnets, LAMBDA s :
                    s.MapPublicIpOnLaunch = publicIP /\ ~(s.AvailableIpAddressCount < 1))
    IN  [i \in 1..Len(kept) |-> kept[i].SubnetId]

EligibleSubnets(am) == EligibleOf(Subnets, am.PublicIP)

\* random(ss) of util.go: the element at index rand.Intn(len(ss)), where r is
\* the number the generator of math/rand draws for the call.
random(ss, r) == ss[(r % Len(ss)) + 1]

\* LaunchInstance against the DescribeSubnets response subnets, with r the
\* draw of the generator: (err, instance, backend afterwards, the subnet put
\* in the request, the number of RunInstances calls).  RunInstances fails on
\* request (failed) or when the instance limit is hit; the new instance is
\* the lowest number not yet issued.
LaunchInstanceIn(subnets, r, am, e, failed, n) ==
    LET none == [err |-> NoErr, instance |-> 0, ec2 |-> e, SubnetId |-> "",
                 runCalls |-> 0]
        Run(free, subnet) ==
            IF failed \/ free = {}
            THEN [none EXCEPT !.err = BackendError, !.SubnetId = subnet, !.runCalls = 1]
            ELSE LET Started(k) ==
                         [none EXCEPT
                            !.instance = k, !.SubnetId = subnet, !.runCalls = 1,
                            !.ec2 = [e EXCEPT ![k] = [state |-> "pending",
                                                      public |-> am.PublicIP,
                                                      launchedFor |-> n]]]
                 IN  Started(CHOOSE x \in free : \A y \in free : x <= y)
        Picked(eligible) ==
            IF Len(eligible) = 0
            THEN [none EXCEPT !.err = NoSubnetError]
            ELSE Run({k \in DOMAIN e : e[k].state = "none"}, random(eligible, r))
    IN  IF Len(subnets) = 0
        THEN [none EXCEPT !.err = NoSubnetError]
        ELSE Picked(EligibleOf(subnets, am.PublicIP))

\* LaunchInstance for AWSMachine n in the VPC of the model, whose response
\* holds one eligible subnet at most, so that the draw does not matter.
LaunchInstance(am, e, failed, n) == LaunchInstanceIn(Subnets, 0, am, e, failed, n)

\* Lines 43-61 of LaunchInstance: (err, the SecurityGroupIds of the
\* RunInstances input, the number of DescribeSecurityGroups calls).  ids and
\* names are Spec.SecurityGroupIDs and Spec.SecurityGroupNames, groups the
\* security groups the backend holds, fails whether the request fails.  The
\* ids of the groups whose name is among names are appended to ids.
ResolveSecurityGroups(ids, names, groups, fails) ==
    LET named == SelectSeq(groups, LAMBDA g : \E i \in 1..Len(names) : names[i] = g.GroupName)
    IN  IF Len(names) = 0
        THEN [err |-> NoErr, SecurityGroupIds |-> ids, describeCalls |-> 0]
        ELSE IF fails
        THEN [err |-> BackendError, SecurityGroupIds |-> ids, describeCalls |-> 1]
        ELSE [err |-> NoErr,
              SecurityGroupIds |-> ids \o [i \in 1..Len(named) |-> named[i].GroupId],
              describeCalls |-> 1]

\* LaunchInstance from line 43 on: the security groups are resolved, then
\* the subnet is chosen and RunInstances is called with both.
LaunchInstanceWithGroups(ids, names, groups, fails, subnets, r, am, e, failed, n) ==
    LET Resolved(sg) ==
            IF sg.err # NoErr
            THEN [err |-> sg.err, SecurityGroupIds |-> sg.SecurityGroupIds,
                  SubnetId |-> "", runCalls |-> 0, instance |-> 0]
            ELSE LET Launched(l) ==
                         [err |-> l.err, SecurityGroupIds |-> sg.SecurityGroupIds,
                          SubnetId |-> l.SubnetId, runCalls |-> l.runCalls,
                          instance |-> l.instance]
                 IN  Launched(LaunchInstanceIn(subnets, r, am, e, failed, n))
    IN  Resolved(ResolveSecurityGroups(ids, names, groups, fails))

\* ------------------------------------------------ AWSMachineReconciler

\* Faults the environment may inject into one invocation: the call named
\* fails with an error (DescribeInstances1 / DescribeInstances2 are the
\* first and second DescribeInstances call of the invocation).
Faults ==
    {"none", "Get", "GetOwnerMachine", "GetConfig", "GetSecret", "RunInstances",
     "DescribeInstances1", "DescribeInstances2", "TerminateInstances"}

\* The addresses of one network interface: two internal ones, and two
\* external ones when it has an association.
InterfaceAddresses(eni, id) ==
    << [Type |-> "InternalDNS", Address |-> id],
       [Type |-> "InternalIP", Address |-> id] >>
    \o (IF eni.Association
        THEN << [Type |-> "ExternalDNS", Address |-> id],
                [Type |-> "ExternalIP", Address |-> id] >>
        ELSE <<>>)

RECURSIVE AddressesOf(_, _)
AddressesOf(enis, id) ==
    IF enis = <<>> THEN <<>>
    ELSE InterfaceAddresses(Head(enis), id) \o AddressesOf(Tail(enis), id)

\* getInstanceAddresses of instance number k (k # 0).
getInstanceAddresses(e, k) == AddressesOf(NetworkInterfaces(e[k]), InstanceId(k))

\* Mutant: an object with a provider id counts as provisioned only until
\* its status is ready.
IsProvisioned_UntilReady(am) == am.ProviderID # Nil /\ ~am.Ready

\* Mutant: the readiness of the Config is not tested.
ConfigReady_Unchecked(cfg) == TRUE

\* Mutant: a failure message on the object is not looked at.
HasFailure_Ignored(am) == FALSE

\* Mutant: the deletion marker is looked at after the failure message.
IsDeleting_UnlessFailed(am) == am.DeletionTimestamp /\ ~am.FailureMessage

\* Mutant: the owner is taken to be resolved.
HasOwner_Assumed(am) == TRUE

\* Mutant: the secret is not looked up for the key.
HasCloudConfig_Unchecked(cfg) == TRUE

\* The guards of Reconcile, in the order the code tests them.
IsDeleting(am) == am.DeletionTimestamp
HasFailure(am) == am.FailureMessage
HasOwner(am) == am.OwnerRef
IsProvisioned(am) == am.ProviderID # Nil
ConfigReady(cfg) == cfg.Ready
HasCloudConfig(cfg) == cfg.hasCloudConfig

\* Mutant: a terminated instance is terminated again.
DeleteCase_TerminatedTerminates(state) ==
    CASE state \in {"pending", "stopping"} -> "wait"
      [] state \in {"running", "stopped", "terminated"} -> "terminate"
      [] state = "shutting-down" -> "wait"
      [] OTHER -> "unknown"

\* The switch of reconcileDelete on the state DescribeInstanceStatus reports.
DeleteCase(state) ==
    CASE state \in {"pending", "stopping"} -> "wait"
      [] state \in {"running", "stopped"} -> "terminate"
      [] state = "shutting-down" -> "wait"
      [] state = "terminated" -> "done"
      [] OTHER -> "unknown"

\* reconcileDelete: (err, backend afterwards), with the state it observed and
\* the calls it made.  Dereferencing a nil Spec.ProviderID panics.
reconcileDelete(am, e, fault) ==
    LET none == [err |-> NoErr, ec2 |-> e, observed |-> "", panic |-> FALSE,
                 describeCalls |-> 0, terminateCalls |-> 0]
        Terminated(st, t) ==
            [none EXCEPT !.describeCalls = 1, !.observed = st.state,
                         !.terminateCalls = 1, !.ec2 = t.ec2,
                         !.err = IF t.err # NoErr THEN t.err ELSE RequeueAfterError]
        Switch(p, st, case) ==
            IF case = "wait"
            THEN [none EXCEPT !.describeCalls = 1, !.observed = st.state,
                              !.err = RequeueAfterError]
            ELSE IF case = "terminate"
            THEN Terminated(st, TerminateInstance(e, fault = "TerminateInstances",
                                                  p.InstanceID))
            ELSE IF case = "done"
            THEN [none EXCEPT !.describeCalls = 1, !.observed = st.state]
            ELSE [none EXCEPT !.describeCalls = 1, !.observed = st.state,
                              !.err = UnknownStateError(st.state)]
        Described(p, st) ==
            IF st.err # NoErr
            THEN [none EXCEPT !.describeCalls = 1, !.err = st.err]
            ELSE Switch(p, st, DeleteCase(st.state))
        Parsed(p) ==
            IF ~p.ok
            THEN [none EXCEPT !.err = InvalidProviderIDError]
            ELSE Described(p, DescribeInstanceStatus(e, fault = "DescribeInstances1",
                                                     p.InstanceID))
    IN  IF am.ProviderID = Nil
        THEN [none EXCEPT !.panic = TRUE]
        ELSE Parsed(ParseProviderID(Deref(am.ProviderID)))

\* Mutant: the addresses are fetched whether the object is ready or not.
NeedsAddresses_Always(am) == TRUE

\* The test of line 464: the addresses are fetched while the object is not
\* ready.
NeedsAddresses(am) == ~am.Ready

\* reconcileStatus: (err, am afterwards).  getInstanceAddresses of the nil
\* instance that DescribeInstance returns for an absent instance panics.
reconcileStatus(am, e, fault) ==
    LET none == [err |-> NoErr, am |-> am, panic |-> FALSE, describeCalls |-> 0]
        Refreshed(am1, i) ==
            IF i.err # NoErr
            THEN [none EXCEPT !.describeCalls = 2, !.am = am1, !.err = i.err]
            ELSE IF i.instance = 0
            THEN [none EXCEPT !.describeCalls = 2, !.am = am1, !.panic = TRUE]
            ELSE [none EXCEPT !.describeCalls = 2,
                              !.am = [am1 EXCEPT
                                        !.Addresses = getInstanceAddresses(e, i.instance),
                                        !.Ready = TRUE]]
        WithState(p, am1) ==
            IF ~NeedsAddresses(am1)
            THEN [none EXCEPT !.describeCalls = 1, !.am = am1]
            ELSE Refreshed(am1, DescribeInstance(e, fault = "DescribeInstances2",
                                                 p.InstanceID))
        Described(p, st) ==
            IF st.err # NoErr
            THEN [none EXCEPT !.describeCalls = 1, !.err = st.err]
            ELSE WithState(p, [am EXCEPT !.InstanceState = st.state])
        Parsed(p) ==
            IF ~p.ok
            THEN [none EXCEPT !.err = InvalidProviderIDError]
            ELSE Described(p, DescribeInstanceStatus(e, fault = "DescribeInstances1",
                                                     p.InstanceID))
    IN  Parsed(ParseProviderID(Deref(am.ProviderID)))

\* The credentials of the aws.Config handed to LaunchInstance: the default
\* chain of the SDK, or a static pair.
DefaultCredentials == [kind |-> "default", id |-> "", secret |-> ""]
StaticCredentials(id, secret) == [kind |-> "static", id |-> id, secret |-> secret]

\* string(s.Data[key]): the value of the key, empty when the key is missing.
SecretValue(data, key) == IF key \in DOMAIN data THEN data[key] ELSE ""

\* Mutant: one of the two values is enough.
UseStatic_EitherSuffices(id, secret) == id # "" \/ secret # ""

\* The test of line 372.
UseStatic(id, secret) == id # "" /\ secret # ""

\* Lines 363-375: (err, the credentials of awscfg).  secretRef is
\* am.Spec.SecretRef, data the Data of the secret it names, getFails whether
\* the read of that secret fails.
LaunchCredentials(secretRef, data, getFails) ==
    LET Chosen(id, secret) ==
            IF UseStatic(id, secret)
            THEN [err |-> NoErr, credentials |-> StaticCredentials(id, secret)]
            ELSE [err |-> NoErr, credentials |-> DefaultCredentials]
    IN  IF secretRef = Nil
        THEN [err |-> NoErr, credentials |-> DefaultCredentials]
        ELSE IF getFails
        THEN [err |-> APIError, credentials |-> DefaultCredentials]
        ELSE Chosen(SecretValue(data, "AWS_ACCESS_KEY_ID"),
                    SecretValue(data, "AWS_SECRET_ACCESS_KEY"))

\* What one invocation has done when it reaches its last write (or returns
\* without one): am is the object in memory, persist the write still to make
\* ("update" of line 299, the deferred "patch" of line 327, or "none"),
\* RequeueAfter and err the values of the return statement taken, mFailure
\* whether SetFailure was called on the owner Machine in memory.
Outcome(am, e) ==
    [am |-> am, ec2 |-> e, persist |-> "none", branch |-> "None",
     RequeueAfter |-> 0, err |-> NoErr, deleteErr |-> NoErr, observed |-> "",
     describeCalls |-> 0, terminateCalls |-> 0, launchCalls |-> 0, launched |-> 0,
     panic |-> FALSE, mFailure |-> FALSE]

\* Lines 294-303: the error of reconcileDelete is logged, the finalizer is
\* removed and the object updated.
DeletingBranch(am, e, fault) ==
    LET Logged(d) ==
            IF d.panic
            THEN [Outcome(am, e) EXCEPT !.branch = "Deleting", !.panic = TRUE]
            ELSE [Outcome(am, e) EXCEPT
                    !.branch = "Deleting",
                    !.am = [am EXCEPT !.Finalizer = FALSE],
                    !.ec2 = d.ec2,
                    !.persist = "update",
                    !.deleteErr = d.err,
                    !.observed = d.observed,
                    !.describeCalls = d.describeCalls,
                    !.terminateCalls = d.terminateCalls]
    IN  Logged(reconcileDelete(am, e, fault))

\* Lines 337-343, on the outcome o so far.
ProvisionedBranch(o, fault) ==
    LET Returned(s) ==
            [o EXCEPT !.branch = "Provisioned",
                      !.am = s.am,
                      !.err = s.err,
                      !.panic = s.panic,
                      !.describeCalls = s.describeCalls]
    IN  Returned(reconcileStatus(o.am, o.ec2, fault))

\* Lines 354-391, on the outcome o so far.
ProvisioningBranch(o, cfg, fault, n) ==
    LET Returned(l, s) ==
            [o EXCEPT !.branch = "Provisioning",
                      !.launchCalls = 1,
                      !.launched = l.instance,
                      !.ec2 = l.ec2,
                      !.am = s.am,
                      !.err = s.err,
                      !.panic = s.panic,
                      !.describeCalls = s.describeCalls]
        Launched(l) ==
            IF l.err # NoErr
            THEN [o EXCEPT !.branch = "Provisioning", !.launchCalls = 1,
                           !.err = l.err, !.mFailure = TRUE]
            ELSE Returned(l, reconcileStatus(
                     [o.am EXCEPT
                        !.ProviderID = Ptr(FormatProviderID(Zone, InstanceId(l.instance))),
                        !.Addresses = getInstanceAddresses(l.ec2, l.instance),
                        !.Ready = TRUE],
                     l.ec2, fault))
    IN  IF fault = "GetSecret"
        THEN [o EXCEPT !.branch = "Provisioning", !.err = APIError]
        ELSE IF ~HasCloudConfig(cfg)
        THEN [o EXCEPT !.branch = "Provisioning", !.err = MissingCloudConfigError]
        ELSE Launched(LaunchInstance(o.am, o.ec2, fault = "RunInstances", n))

\* Lines 321-392: the patch helper is set up and the finalizer added, then the
\* Provisioned, AwaitingBootstrapReady and Provisioning branches.
PatchedBranches(o, cfg, fault, n) ==
    IF IsProvisioned(o.am) THEN ProvisionedBranch(o, fault)
    ELSE IF fault = "GetConfig"
    THEN [o EXCEPT !.branch = "AwaitingBootstrapReady", !.err = APIError]
    ELSE IF ~ConfigReady(cfg)
    THEN [o EXCEPT !.branch = "AwaitingBootstrapReady",
                   !.RequeueAfter = RequeueConfigNotReady]
    ELSE ProvisioningBranch(o, cfg, fault, n)

\* Reconcile up to its last write, on the object am read by r.Get.
ReconcileOutcome(am, cfg, e, fault, n) ==
    IF fault = "Get" THEN [Outcome(am, e) EXCEPT !.err = APIError]
    ELSE IF ~am.exists THEN Outcome(am, e)
    ELSE IF IsDeleting(am) THEN DeletingBranch(am, e, fault)
    ELSE IF HasFailure(am) THEN [Outcome(am, e) EXCEPT !.branch = "Failed"]
    ELSE IF HasOwner(am) /\ fault = "GetOwnerMachine"
    THEN [Outcome(am, e) EXCEPT !.branch = "AwaitingOwner", !.err = APIError]
    ELSE IF ~HasOwner(am) THEN [Outcome(am, e) EXCEPT !.branch = "AwaitingOwner"]
    ELSE PatchedBranches([Outcome(am, e) EXCEPT !.am = [am EXCEPT !.Finalizer = TRUE],
                                                !.persist = "patch"],
                         cfg, fault, n)

\* The invocation record kept in rec: the outcome without the backend.
Invocation(pc, n, orig, o, reterr) ==
    [pc |-> pc, name |-> n, orig |-> orig, am |-> o.am, persist |-> o.persist,
     branch |-> o.branch, RequeueAfter |-> o.RequeueAfter, err |-> o.err,
     deleteErr |-> o.deleteErr, observed |-> o.observed,
     describeCalls |-> o.describeCalls, terminateCalls |-> o.terminateCalls,
     launchCalls |-> o.launchCalls, launched |-> o.launched, panic |-> o.panic,
     mFailure |-> o.mFailure, reterr |-> reterr, persisted |-> FALSE]

\* r.Update(ctx, am): the object replaces the stored one unless the stored
\* one changed since it was read (conflict) or the request fails.  The API
\* server removes an object that has a deletion timestamp and no finalizer.
UpdateSucceeds(stored, orig, ok) == ok /\ stored = orig
Updated(am) == IF am.DeletionTimestamp /\ ~am.Finalizer THEN AbsentMachine ELSE am

\* patchHelper.Patch(ctx, am): the fields that differ between the object as
\* read and the object in memory are written onto the stored object.
PatchSucceeds(stored, ok) == ok /\ stored.exists
Patched(stored, orig, am) ==
    [stored EXCEPT
       !.Finalizer = IF am.Finalizer # orig.Finalizer THEN am.Finalizer ELSE @,
       !.ProviderID = IF am.ProviderID # orig.ProviderID THEN am.ProviderID ELSE @,
       !.Ready = IF am.Ready # orig.Ready THEN am.Ready ELSE @,
       !.InstanceState = IF am.InstanceState # orig.InstanceState THEN am.InstanceState ELSE @,
       !.Addresses = IF am.Addresses # orig.Addresses THEN am.Addresses ELSE @]

\* Mutant: the patch error replaces the error of the branch.
DeferredError_PatchErrorWins(err, patchErr) == IF patchErr # NoErr THEN patchErr ELSE err

\* The deferred function of lines 326-332: the patch error is returned only
\* when the branch returned none.
DeferredError(err, patchErr) == IF err = NoErr THEN patchErr ELSE err

\* No function is applied on its own.
NoCall == [op |-> "none"]

\* An empty corev1.ObjectReference (the Machine has no infrastructure
\* reference).
NoRef == [Kind |-> "", Name |-> ""]

\* A Node that does not exist in the API server.  cloudLink is the
\* annotation infrav1.NodeOwnerLabelName (the name of the AWSMachine it
\* refers to), machineLink the annotation machinev1.NodeOwnerLabelName (the
\* name of the Machine); Nil when the annotation is missing.
NoNode == [exists |-> FALSE, ProviderID |-> <<>>, cloudLink |-> Nil, machineLink |-> Nil]

\* No NodeReconciler invocation in progress.
NodeIdle ==
    [pc |-> "idle", name |-> "", n |-> NoNode, am |-> AbsentMachine, target |-> "",
     matched |-> FALSE, created |-> FALSE, annotated |-> FALSE, updates |-> 0,
     describeCalls |-> 0, panic |-> FALSE, err |-> NoErr]

\* No invocation in progress.
Idle == Invocation("idle", "", AbsentMachine, Outcome(AbsentMachine, <<>>), NoErr)

Init ==
    /\ awsmachines \in
         [AMNames -> {[AbsentMachine EXCEPT !.exists = TRUE, !.ProviderID = id,
                                            !.PublicIP = pub] :
                        id \in InitialProviderIDs, pub \in BOOLEAN}]
    /\ machine = [FailureMessage |-> FALSE, InfrastructureRef |-> NoRef]
    /\ config \in {[Ready |-> FALSE, hasCloudConfig |-> h] : h \in BOOLEAN}
    /\ ec2 = [k \in 1..MaxInstances |-> NoInstance]
    /\ rec = Idle
    /\ fn = NoCall
    /\ node = NoNode
    /\ nrec = NodeIdle

\* AWSMachineReconciler.Reconcile for object n, from r.Get to the point of
\* its last write: the branch taken, the backend calls made and the object
\* in memory.
Reconcile(n, fault) ==
    /\ rec.pc = "idle"
    /\ \E o \in {ReconcileOutcome(awsmachines[n], config, ec2, fault, n)} :
           /\ rec' = Invocation("persist", n, awsmachines[n], o, NoErr)
           /\ ec2' = o.ec2
    /\ UNCHANGED <<awsmachines, machine, config, fn, node, nrec>>

\* The last write of the invocation and its return: r.Update in the Deleting
\* branch, the deferred patch in the branches after line 326, nothing in the
\* others.  ok is whether the API request succeeds.
ReconcileReturn(ok) ==
    /\ rec.pc = "persist"
    /\ LET n == rec.name
           stored == awsmachines[n]
       IN  CASE rec.persist = "update" ->
                  IF UpdateSucceeds(stored, rec.orig, ok)
                  THEN /\ awsmachines' = [awsmachines EXCEPT ![n] = Updated(rec.am)]
                       /\ rec' = [rec EXCEPT !.pc = "done", !.persisted = TRUE,
                                             !.reterr = NoErr]
                  ELSE /\ rec' = [rec EXCEPT !.pc = "done", !.reterr = APIError]
                       /\ UNCHANGED awsmachines
             [] rec.persist = "patch" ->
                  IF PatchSucceeds(stored, ok)
                  THEN /\ awsmachines' = [awsmachines EXCEPT
                                            ![n] = Patched(stored, rec.orig, rec.am)]
                       /\ rec' = [rec EXCEPT !.pc = "done", !.persisted = TRUE,
                                             !.reterr = DeferredError(rec.err, NoErr)]
                  ELSE /\ rec' = [rec EXCEPT !.pc = "done",
                                             !.reterr = DeferredError(rec.err, PatchError)]
                       /\ UNCHANGED awsmachines
             [] OTHER ->
                  /\ rec' = [rec EXCEPT !.pc = "done", !.reterr = rec.err]
                  /\ UNCHANGED awsmachines
    /\ UNCHANGED <<machine, config, ec2, fn, node, nrec>>

\* The event-delivery substrate takes the result (RequeueAfter, reterr) of
\* the invocation that returned; the worker is free for the next request.
TakeResult ==
    /\ rec.pc = "done"
    /\ rec' = Idle
    /\ UNCHANGED <<awsmachines, machine, config, ec2, fn, node, nrec>>

\* ------------------------------------------------------------ environment
\* The substrate takes a result as soon as Reconcile returns: the rest of the
\* world moves before the return or after the result is taken.

\* The machine controller sets the owner reference of the AWSMachine.
SetOwnerRef(n) ==
    /\ rec.pc # "done"
    /\ awsmachines[n].exists /\ ~awsmachines[n].OwnerRef
    /\ awsmachines' = [awsmachines EXCEPT ![n].OwnerRef = TRUE]
    /\ UNCHANGED <<machine, config, ec2, rec, fn, node, nrec>>

\* The owner Machine is deleted with its dependents orphaned: the owner
\* reference is removed from the AWSMachine.
OrphanAWSMachine(n) ==
    /\ rec.pc # "done"
    /\ awsmachines[n].exists /\ awsmachines[n].OwnerRef
    /\ awsmachines' = [awsmachines EXCEPT ![n].OwnerRef = FALSE]
    /\ UNCHANGED <<machine, config, ec2, rec, fn, node, nrec>>

\* The owner's Config becomes ready: its bootstrap secret is written.
ConfigBecomesReady ==
    /\ rec.pc # "done"
    /\ ~config.Ready
    /\ config' = [config EXCEPT !.Ready = TRUE]
    /\ UNCHANGED <<awsmachines, machine, ec2, rec, fn, node, nrec>>

\* A delete request: the object gets its deletion timestamp, and is removed
\* at once when it holds no finalizer.
DeleteAWSMachine(n) ==
    /\ rec.pc # "done"
    /\ awsmachines[n].exists /\ ~awsmachines[n].DeletionTimestamp
    /\ awsmachines' = [awsmachines EXCEPT
                         ![n] = Updated([@ EXCEPT !.DeletionTimestamp = TRUE])]
    /\ UNCHANGED <<machine, config, ec2, rec, fn, node, nrec>>

\* A terminal failure message is written to the AWSMachine status (no code
\* of this repository writes it).
SetFailureMessage(n) ==
    /\ rec.pc # "done"
    /\ awsmachines[n].exists /\ ~awsmachines[n].FailureMessage
    /\ awsmachines' = [awsmachines EXCEPT ![n].FailureMessage = TRUE]
    /\ UNCHANGED <<machine, config, ec2, rec, fn, node, nrec>>

\* The backend moves an instance along its lifecycle.
InstanceSuccessors(state) ==
    CASE state = "pending" -> {"running", "other"}
      [] state = "running" -> {"stopping"}
      [] state = "stopping" -> {"stopped"}
      [] state = "shutting-down" -> {"terminated"}
      [] state = "terminated" -> {"gone"}
      [] OTHER -> {}

InstanceTransition(k) ==
    /\ rec.pc # "done"
    /\ \E s \in InstanceSuccessors(ec2[k].state) :
         ec2' = [ec2 EXCEPT ![k].state = s]
    /\ UNCHANGED <<awsmachines, machine, config, rec, fn, node, nrec>>

Next ==
    \/ \E n \in AMNames, fault \in Faults : Reconcile(n, fault)
    \/ \E ok \in BOOLEAN : ReconcileReturn(ok)
    \/ TakeResult
    \/ \E n \in AMNames : SetOwnerRef(n)
    \/ \E n \in AMNames : OrphanAWSMachine(n)
    \/ ConfigBecomesReady
    \/ \E n \in AMNames : DeleteAWSMachine(n)
    \/ \E n \in AMNames : SetFailureMessage(n)
    \/ \E k \in 1..MaxInstances : InstanceTransition(k)

Spec == Init /\ [][Next]_vars

\* ----------------------------------------------------------------- claims
\* In a state with rec.pc = "done" an invocation has just returned: rec holds
\* what it read (orig), what it did and what it returned, and awsmachines
\* holds the objects as that invocation left them.

Returned == rec.pc = "done"

\* The object of the invocation as the API server holds it.
Stored == awsmachines[rec.name]

\* The invocation ran on an object that carries a deletion marker.
ReturnedFromDelete ==
    Returned /\ rec.orig.exists /\ rec.orig.DeletionTimestamp /\ rec.branch = "Deleting"

\* The finalizer is still on the stored object.
FinalizerKept == Stored.exists /\ Stored.Finalizer

\* The state the backend reports for the instance a provider id names.
BackendState(pid) ==
    DescribeInstanceStatus(ec2, FALSE, ParseProviderID(Deref(pid)).InstanceID).state

\* The instances launched for AWSMachine n.
LaunchedFor(n) == {k \in DOMAIN ec2 : ec2[k].state # "none" /\ ec2[k].launchedFor = n}

\* C1: an invocation on an object with a deletion marker leaves the finalizer
\* on the stored object unless its reconcileDelete observed "terminated"; so
\* an object that lost its finalizer names an instance the backend reports
\* as terminated.
C1_OrphanSafety ==
    (ReturnedFromDelete /\ ~FinalizerKept) =>
        /\ rec.observed = "terminated"
        /\ rec.orig.ProviderID # Nil
        /\ BackendState(rec.orig.ProviderID) = "terminated"

\* C2: when DescribeInstanceStatus reports "running" for an object with a
\* deletion marker, the invocation calls TerminateInstance exactly once and
\* does not remove the finalizer.
C2_RunningTerminatesOnceKeepsFinalizer ==
    (ReturnedFromDelete /\ rec.observed = "running") =>
        rec.terminateCalls = 1 /\ FinalizerKept

\* C3, as stated: when DescribeInstanceStatus reports "terminated" for an
\* object with a deletion marker, reconcileDelete succeeds without calling
\* TerminateInstance, and the invocation removes the finalizer, persists the
\* object and returns neither an error nor a requeue.
C3_TerminatedFinalizes_Original ==
    (ReturnedFromDelete /\ rec.observed = "terminated") =>
        /\ rec.deleteErr = NoErr
        /\ rec.terminateCalls = 0
        /\ ~FinalizerKept
        /\ rec.persisted
        /\ rec.reterr = NoErr
        /\ rec.RequeueAfter = 0

\* C3, amended: under the same condition reconcileDelete succeeds without
\* calling TerminateInstance and the invocation removes the finalizer in
\* memory and requests no requeue; when its Update succeeds the stored
\* object has lost the finalizer and no error is returned, and when its
\* Update fails the Update error is returned and the stored object keeps
\* the finalizer.
C3_TerminatedFinalizes ==
    (ReturnedFromDelete /\ rec.observed = "terminated") =>
        /\ rec.deleteErr = NoErr
        /\ rec.terminateCalls = 0
        /\ ~rec.am.Finalizer
        /\ rec.RequeueAfter = 0
        /\ rec.persisted => (~FinalizerKept /\ rec.reterr = NoErr)
        /\ ~rec.persisted => (FinalizerKept /\ rec.reterr = APIError)

\* C3: a deletion whose describe reported "terminated" and whose Update
\* went through.
C3_Witness ==
    /\ ReturnedFromDelete
    /\ rec.observed = "terminated"
    /\ rec.persisted
    /\ ~Stored.exists

\* C4: when the backend reports a state outside the known enumeration during
\* deletion, the invocation returns the error naming that state (no success,
\* no requeue-after), calls TerminateInstance zero times and leaves the
\* finalizer in place.
C4_UnknownStateIsError ==
    (ReturnedFromDelete /\ rec.describeCalls = 1 /\ rec.deleteErr.kind # "BackendError"
        /\ rec.observed \notin KnownStates) =>
        /\ rec.reterr = UnknownStateError(rec.observed)
        /\ rec.RequeueAfter = 0
        /\ rec.terminateCalls = 0
        /\ FinalizerKept

\* C5: when the backend reports pending, stopping or shutting-down during
\* deletion, the invocation calls TerminateInstance zero times, keeps the
\* finalizer and returns without error a result with RequeueAfter = 10 s;
\* the same result is returned after terminate was issued for running or
\* stopped.
C5_WaitingRequeuesAfterTen ==
    /\ (ReturnedFromDelete /\ rec.observed \in {"pending", "stopping", "shutting-down"}) =>
           /\ rec.terminateCalls = 0
           /\ FinalizerKept
           /\ rec.reterr = NoErr
           /\ rec.RequeueAfter = RequeueTerminating
    /\ (ReturnedFromDelete /\ rec.observed \in {"running", "stopped"}
           /\ rec.deleteErr.kind = "RequeueAfter") =>
           /\ rec.reterr = NoErr
           /\ rec.RequeueAfter = RequeueTerminating

\* C6: LaunchInstance succeeds at most once for one AWSMachine: the backend
\* never holds more than one instance launched for it.
C6_NoDuplicateInstances ==
    \A n \in AMNames : Cardinality(LaunchedFor(n)) <= 1

\* The object the invocation read was in the Provisioned state: no deletion
\* marker, no failure, an owner reference and a provider id.
ReadProvisioned ==
    /\ rec.orig.exists
    /\ ~rec.orig.DeletionTimestamp
    /\ ~rec.orig.FailureMessage
    /\ rec.orig.OwnerRef
    /\ rec.orig.ProviderID # Nil

\* C7: an invocation on an object in the Provisioned state never calls
\* LaunchInstance and leaves Spec.ProviderID as it was, in memory and in the
\* stored object, however often it is repeated.
C7_ProvisionedIsIdempotent ==
    (rec.pc \in {"persist", "done"} /\ ReadProvisioned) =>
        /\ rec.launchCalls = 0
        /\ rec.launched = 0
        /\ rec.am.ProviderID = rec.orig.ProviderID
        /\ Stored.exists => Stored.ProviderID = rec.orig.ProviderID

\* C7: a second Provisioned invocation in succession: the object read already
\* carries the state "running" that an earlier Provisioned invocation stored
\* (the Provisioning invocation stores the state of the fresh instance).
C7_Witness ==
    /\ Returned
    /\ ReadProvisioned
    /\ rec.branch = "Provisioned"
    /\ rec.orig.InstanceState = "running"
    /\ rec.orig.ProviderID = Ptr(FormatProviderID(Zone, InstanceId(1)))
    /\ rec.persisted
    /\ rec.reterr = NoErr

\* C8: once Spec.ProviderID of a stored AWSMachine is set, no step clears or
\* changes it while the object exists.
C8_ProviderIDNeverChanges ==
    [][\A n \in AMNames :
          (awsmachines[n].exists /\ awsmachines[n].ProviderID # Nil /\ awsmachines'[n].exists)
              => awsmachines'[n].ProviderID = awsmachines[n].ProviderID]_vars

\* C8: a provider id written by the Provisioning branch has been through a
\* later invocation that patched the object.
C8_Witness ==
    /\ Returned
    /\ rec.branch = "Provisioned"
    /\ rec.persisted
    /\ rec.orig.Ready
    /\ Stored.exists
    /\ Stored.ProviderID = Ptr(FormatProviderID(Zone, InstanceId(1)))
    /\ Stored.InstanceState # rec.orig.InstanceState

\* The invocation read an object with no deletion marker, no failure, an
\* owner and no provider id, read the owner and its Config without an API
\* error, and the Config was not ready (it is not ready even now).
ReadAwaitingBootstrap ==
    /\ Returned
    /\ rec.orig.exists
    /\ ~rec.orig.DeletionTimestamp
    /\ ~rec.orig.FailureMessage
    /\ rec.orig.OwnerRef
    /\ rec.orig.ProviderID = Nil
    /\ ~config.Ready
    /\ rec.err.kind # "APIError"

NoBackendCall ==
    rec.launchCalls = 0 /\ rec.describeCalls = 0 /\ rec.terminateCalls = 0

\* C9, as stated: with the Config not ready, Reconcile returns RequeueAfter =
\* 5 s and no error and makes no compute-backend call.
C9_ConfigNotReady_Original ==
    ReadAwaitingBootstrap =>
        /\ rec.RequeueAfter = RequeueConfigNotReady
        /\ rec.reterr = NoErr
        /\ NoBackendCall

\* C9, amended: with the Config not ready, Reconcile returns RequeueAfter =
\* 5 s and makes no compute-backend call; it returns no error when the
\* deferred patch succeeds, and the patch error when the patch fails.
C9_ConfigNotReady ==
    ReadAwaitingBootstrap =>
        /\ rec.RequeueAfter = RequeueConfigNotReady
        /\ NoBackendCall
        /\ rec.persisted => rec.reterr = NoErr
        /\ ~rec.persisted => rec.reterr = PatchError

\* C9: an invocation that found the Config not ready and patched the object.
C9_Witness ==
    /\ ReadAwaitingBootstrap
    /\ rec.branch = "AwaitingBootstrapReady"
    /\ rec.persisted
    /\ rec.reterr = NoErr
    /\ Stored.Finalizer

\* The invocation read an object with no provider id (no deletion marker, no
\* failure, an owner), and its LaunchInstance succeeded.
LaunchSucceeded ==
    /\ Returned
    /\ rec.orig.exists
    /\ ~rec.orig.DeletionTimestamp
    /\ ~rec.orig.FailureMessage
    /\ rec.orig.OwnerRef
    /\ rec.orig.ProviderID = Nil
    /\ rec.launched # 0

\* The stored object names the launched instance: its provider id is
\* "aws:///<zone>/<instance id>", which parses to the region, zone and id of
\* that instance; ready is set; it has an address and none is empty.
StoredIsProvisioned ==
    /\ Stored.exists
    /\ Stored.ProviderID # Nil
    /\ Deref(Stored.ProviderID) # <<>>
    /\ Deref(Stored.ProviderID) = FormatProviderID(Zone, InstanceId(rec.launched))
    /\ ParseProviderID(Deref(Stored.ProviderID)) =
          [ok |-> TRUE, AvailabilityZone |-> Zone, Region |-> ParseRegionFromAZ(Zone),
           InstanceID |-> InstanceId(rec.launched)]
    /\ Stored.Ready
    /\ Len(Stored.Addresses) >= 1
    /\ \A i \in 1..Len(Stored.Addresses) : Stored.Addresses[i].Address # <<>>

\* C10, as stated: when LaunchInstance succeeds, the persisted object has a
\* non-empty provider id of the launched instance, ready = true and at least
\* one populated address.
C10_ProvisioningSuccess_Original == LaunchSucceeded => StoredIsProvisioned

\* C10, amended: when LaunchInstance succeeds and the deferred patch of the
\* invocation succeeds, the persisted object has the provider id
\* "aws:///<zone>/<instance id>" of the launched instance, ready = true and
\* at least one populated address; the object in memory has them whether or
\* not the patch succeeds.
C10_ProvisioningSuccess ==
    LaunchSucceeded =>
        /\ rec.am.ProviderID = Ptr(FormatProviderID(Zone, InstanceId(rec.launched)))
        /\ ParseProviderID(Deref(rec.am.ProviderID)).InstanceID = InstanceId(rec.launched)
        /\ rec.am.Ready
        /\ Len(rec.am.Addresses) >= 1
        /\ rec.persisted => StoredIsProvisioned

\* C10: a launch whose result was patched onto the stored object.
C10_Witness ==
    /\ LaunchSucceeded
    /\ rec.persisted
    /\ rec.reterr = NoErr
    /\ Stored.ProviderID = Ptr(FormatProviderID(Zone, InstanceId(rec.launched)))
    /\ Len(Stored.Addresses) = 2

\* The invocation called LaunchInstance and the call failed.
LaunchFailed == Returned /\ rec.launchCalls = 1 /\ rec.launched = 0

\* C11: when LaunchInstance fails, the invocation returns the launch error,
\* the failure is recorded on the stored owner Machine, and the provider id
\* of the AWSMachine stays unset.
C11_LaunchFailureRecordedOnOwner ==
    LaunchFailed =>
        /\ rec.err \in {BackendError, NoSubnetError}
        /\ rec.reterr = rec.err
        /\ machine.FailureMessage
        /\ rec.am.ProviderID = Nil
        /\ Stored.exists => Stored.ProviderID = Nil

\* The invocation read (r.Get succeeded) an object with no deletion marker
\* whose failure message is set.
ReadFailed ==
    /\ rec.pc \in {"persist", "done"}
    /\ rec.err.kind # "APIError"
    /\ rec.orig.exists
    /\ ~rec.orig.DeletionTimestamp
    /\ rec.orig.FailureMessage

\* C12: an invocation on an object with a failure message and no deletion
\* marker makes no backend call, changes nothing on the object in memory,
\* writes nothing to the API server and returns no error and no requeue,
\* whatever the owner, the provider id and the Config are; this holds for
\* every such invocation.
C12_FailedIsTerminal ==
    ReadFailed =>
        /\ NoBackendCall
        /\ rec.am = rec.orig
        /\ rec.persist = "none"
        /\ ~rec.persisted
        /\ ~rec.mFailure
        /\ rec.err = NoErr
        /\ rec.RequeueAfter = 0
        /\ Returned => rec.reterr = NoErr

\* C12: an invocation returned on a failed object that would otherwise be
\* launched: owner set, no provider id, Config ready with cloud-config.
C12_Witness ==
    /\ Returned
    /\ ReadFailed
    /\ rec.branch = "Failed"
    /\ rec.orig.OwnerRef
    /\ rec.orig.ProviderID = Nil
    /\ config.Ready
    /\ config.hasCloudConfig

\* The invocation read an object with no deletion marker and returned
\* without error.
ReturnedWithoutError ==
    /\ Returned
    /\ rec.orig.exists
    /\ ~rec.orig.DeletionTimestamp
    /\ rec.branch \in {"Failed", "AwaitingOwner", "Provisioned",
                       "AwaitingBootstrapReady", "Provisioning"}
    /\ rec.reterr = NoErr

\* C13: after an invocation on an object without deletion marker that
\* returns without error, the stored object carries the finalizer, whichever
\* branch executed; and LaunchInstance is never called unless the finalizer
\* is already on the object in memory.
C13_FinalizerBeforeAnyBranch ==
    /\ (ReturnedWithoutError /\ Stored.exists) => Stored.Finalizer
    /\ (rec.pc \in {"persist", "done"} /\ rec.launchCalls > 0) =>
           (rec.am.Finalizer /\ rec.persist = "patch")

\* The invocation changed the object it read.
Mutated == Returned /\ rec.orig.exists /\ rec.am # rec.orig

\* The invocation ran one of the branches behind the patch helper.
ReturnedFromPatchedBranch ==
    Returned /\ rec.branch \in {"Provisioned", "AwaitingBootstrapReady", "Provisioning"}

\* Every field the invocation changed in memory has its new value in the
\* stored object.
MutationsStored ==
    /\ Stored.exists
    /\ rec.am.Finalizer # rec.orig.Finalizer => Stored.Finalizer = rec.am.Finalizer
    /\ rec.am.ProviderID # rec.orig.ProviderID => Stored.ProviderID = rec.am.ProviderID
    /\ rec.am.Ready # rec.orig.Ready => Stored.Ready = rec.am.Ready
    /\ rec.am.InstanceState # rec.orig.InstanceState =>
           Stored.InstanceState = rec.am.InstanceState
    /\ rec.am.Addresses # rec.orig.Addresses => Stored.Addresses = rec.am.Addresses

\* The result of an invocation that ends with a patch: the error of the
\* branch when there is one, else the patch error when the patch failed.
PatchedResult ==
    rec.reterr = IF rec.err # NoErr THEN rec.err
                 ELSE IF rec.persisted THEN NoErr ELSE PatchError

MaxLen == 5

\* Identity strings: a prefix of "aws:///" followed by any string of at most
\* MaxLen characters over a letter, a digit, the colon and the slash.
Alphabet == {"a", "1", ":", "/"}
Tails == UNION {[1..n -> Alphabet] : n \in 0..MaxLen}
Prefixes ==
    {<<>>, <<"a", "w", "s", ":">>, <<"a", "w", "s", ":", "/", "/">>,
     <<"a", "w", "s", ":", "/", "/", "/">>}
Inputs == {p \o t : p \in Prefixes, t \in Tails}

\* The lifecycle objects while a function is applied on its own: none.
NoObjects ==
    /\ awsmachines = [n \in AMNames |-> AbsentMachine]
    /\ machine = [FailureMessage |-> FALSE, InfrastructureRef |-> NoRef]
    /\ config = [Ready |-> FALSE, hasCloudConfig |-> FALSE]
    /\ ec2 = [k \in 1..MaxInstances |-> NoInstance]
    /\ rec = Idle
    /\ node = NoNode
    /\ nrec = NodeIdle

\* Backends with one instance slot in any state, and the instance ids asked
\* for: the id of that slot and an id the backend never issued.
InstanceStates == KnownStates \cup {"other", "none", "gone"}
Backends ==
    {<<[state |-> st, public |-> FALSE, launchedFor |-> ""]>> : st \in InstanceStates}
InstanceIds == {InstanceId(1), <<"i", "0">>}

\* DescribeSubnets responses of at most MaxSubnets subnets, each with or
\* without public addresses on launch and with or without a free address.
MaxSubnets == 3
SubnetIds == <<"subnet-1", "subnet-2", "subnet-3", "subnet-4">>
SubnetResponses ==
    UNION {{[i \in 1..n |-> [SubnetId |-> SubnetIds[i],
                             MapPublicIpOnLaunch |-> pub[i],
                             AvailableIpAddressCount |-> free[i]]] :
              pub \in [1..n -> BOOLEAN], free \in [1..n -> {0, 1}]} :
           n \in 0..MaxSubnets}

\* The generator of math/rand, seeded by rand.Seed: a fixed sequence of
\* draws of period RandPeriod.  LaunchInstance is called MaxPicks times
\* after each seeding.
RandPeriod == 3
MaxPicks == 2
Advance(x) == (x + 1) % RandPeriod

\* A backend with one free instance slot, and a machine asking for public
\* addresses or not.
OneFreeSlot == <<NoInstance>>
MachineWith(publicIP) == [AbsentMachine EXCEPT !.exists = TRUE, !.PublicIP = publicIP]

\* The objects reconcileStatus is applied to: with the provider id of the
\* instance slot, of an instance never issued or one that does not parse,
\* ready or not, with addresses and an instance state of an earlier refresh
\* or none; and the DescribeInstances call that fails, if any.
StaleAddresses == << [Type |-> "InternalIP", Address |-> <<"i", "9">>] >>
StatusInputs ==
    {[AbsentMachine EXCEPT !.exists = TRUE, !.OwnerRef = TRUE, !.Finalizer = TRUE,
                           !.ProviderID = Ptr(id), !.Ready = ready,
                           !.Addresses = addrs, !.InstanceState = st] :
        id \in {FormatProviderID(Zone, InstanceId(1)), ForeignID, MalformedID},
        ready \in BOOLEAN, addrs \in {<<>>, StaleAddresses}, st \in {"", "pending"}}
StatusFaults == {"none", "DescribeInstances1", "DescribeInstances2"}

\* The secrets a SecretRef may name: each of the two keys missing, empty or
\* set.
CredentialKeys == {"AWS_ACCESS_KEY_ID", "AWS_SECRET_ACCESS_KEY"}
CredentialSecrets ==
    UNION {[keys -> {"", "AKIA"}] : keys \in SUBSET CredentialKeys}
SecretRefs == {Nil, Ptr("creds")}

\* Security groups: the ids and names a machine may give, and the groups the
\* backend may hold.
GroupIdLists == {<<>>, <<"sg-0">>}
GroupNameLists == {<<>>, <<"web">>, <<"web", "db">>}
GroupResponses ==
    {<<>>, << [GroupName |-> "web", GroupId |-> "sg-1"] >>,
     << [GroupName |-> "db", GroupId |-> "sg-2"] >>,
     << [GroupName |-> "web", GroupId |-> "sg-1"], [GroupName |-> "db", GroupId |-> "sg-2"] >>}

PureInit ==
    /\ NoObjects
    /\ fn \in {[op |-> "ParseProviderID", pc |-> "call", s |-> x,
                p |-> NoProviderID, f |-> <<>>] : x \in Inputs}
           \cup {[op |-> "DescribeInstanceStatus", pc |-> "call", e |-> e,
                   failed |-> failed, id |-> id,
                   resp |-> [code |-> "", instances |-> {}],
                   out |-> [state |-> "", err |-> NoErr]] :
                    e \in Backends, failed \in BOOLEAN, id \in InstanceIds}
           \cup {[op |-> "LaunchInstance", subnets |-> ss, publicIP |-> pub,
                   seed |-> seed, rng |-> seed, run |-> 1, picks |-> <<<<>>, <<>>>>] :
                    ss \in SubnetResponses, pub \in BOOLEAN, seed \in 0..(RandPeriod - 1)}
           \cup {[op |-> "reconcileStatus", pc |-> "call", am |-> am, e |-> e,
                   fault |-> fault,
                   out |-> [err |-> NoErr, am |-> am, panic |-> FALSE,
                            describeCalls |-> 0]] :
                    am \in StatusInputs, e \in Backends, fault \in StatusFaults}
           \cup {[op |-> "LaunchInstanceWithGroups", pc |-> "call", ids |-> ids,
                   names |-> names, groups |-> groups, fails |-> fails,
                   out |-> [err |-> NoErr, SecurityGroupIds |-> <<>>, SubnetId |-> "",
                            runCalls |-> 0, instance |-> 0]] :
                    ids \in GroupIdLists, names \in GroupNameLists,
                    groups \in GroupResponses, fails \in BOOLEAN}
           \cup {[op |-> "LaunchCredentials", pc |-> "call", secretRef |-> ref,
                   data |-> data, getFails |-> fails,
                   out |-> [err |-> NoErr, credentials |-> DefaultCredentials]] :
                    ref \in SecretRefs, data \in CredentialSecrets, fails \in BOOLEAN}

\* ParseProviderID(s) is called and returns.
ParseProviderIDCall ==
    /\ fn.op = "ParseProviderID" /\ fn.pc = "call"
    /\ fn' = [fn EXCEPT !.pc = "return", !.p = ParseProviderID(fn.s)]
    /\ UNCHANGED <<awsmachines, machine, config, ec2, rec, node, nrec>>

\* The identity string is built again from the parsed zone and instance id,
\* the way line 385 of the reconciler builds it.
FormatProviderIDCall ==
    /\ fn.op = "ParseProviderID" /\ fn.pc = "return" /\ fn.p.ok
    /\ fn' = [fn EXCEPT !.pc = "formatted",
                        !.f = FormatProviderID(fn.p.AvailabilityZone, fn.p.InstanceID)]
    /\ UNCHANGED <<awsmachines, machine, config, ec2, rec, node, nrec>>

\* DescribeInstanceStatus(id) is called against backend e and returns; resp
\* is what the DescribeInstances request returned to it.
DescribeInstanceStatusCall ==
    /\ fn.op = "DescribeInstanceStatus" /\ fn.pc = "call"
    /\ fn' = [fn EXCEPT !.pc = "return",
                        !.resp = DescribeInstancesResponse(fn.e, fn.failed, fn.id),
                        !.out = DescribeInstanceStatus(fn.e, fn.failed, fn.id)]
    /\ UNCHANGED <<awsmachines, machine, config, ec2, rec, node, nrec>>

\* LaunchInstance is called against the DescribeSubnets response fn.subnets;
\* the generator moves on when random was called.
LaunchInstanceCall ==
    /\ fn.op = "LaunchInstance" /\ Len(fn.picks[fn.run]) < MaxPicks
    /\ LET Applied(res) ==
               fn' = [fn EXCEPT
                        !.picks[fn.run] = Append(@, [err |-> res.err,
                                                     SubnetId |-> res.SubnetId,
                                                     runCalls |-> res.runCalls]),
                        !.rng = IF res.runCalls = 1 THEN Advance(@) ELSE @]
       IN  Applied(LaunchInstanceIn(fn.subnets, fn.rng, MachineWith(fn.publicIP),
                                     OneFreeSlot, FALSE, "am1"))
    /\ UNCHANGED <<awsmachines, machine, config, ec2, rec, node, nrec>>

\* reconcileStatus(am) is called against backend e and returns or panics.
reconcileStatusCall ==
    /\ fn.op = "reconcileStatus" /\ fn.pc = "call"
    /\ fn' = [fn EXCEPT !.pc = "return", !.out = reconcileStatus(fn.am, fn.e, fn.fault)]
    /\ UNCHANGED <<awsmachines, machine, config, ec2, rec, node, nrec>>

\* LaunchInstance is called for a machine with security group ids and names,
\* in the VPC of the model and against a backend with a free slot.
LaunchInstanceWithGroupsCall ==
    /\ fn.op = "LaunchInstanceWithGroups" /\ fn.pc = "call"
    /\ fn' = [fn EXCEPT !.pc = "return",
                        !.out = LaunchInstanceWithGroups(fn.ids, fn.names, fn.groups,
                                                         fn.fails, Subnets, 0,
                                                         MachineWith(FALSE), OneFreeSlot,
                                                         FALSE, "am1")]
    /\ UNCHANGED <<awsmachines, machine, config, ec2, rec, node, nrec>>

\* The credentials of the launch are chosen (lines 363-375).
LaunchCredentialsCall ==
    /\ fn.op = "LaunchCredentials" /\ fn.pc = "call"
    /\ fn' = [fn EXCEPT !.pc = "return",
                        !.out = LaunchCredentials(fn.secretRef, fn.data, fn.getFails)]
    /\ UNCHANGED <<awsmachines, machine, config, ec2, rec, node, nrec>>

\* rand.Seed is called again with the same seed.
SeedCall ==
    /\ fn.op = "LaunchInstance" /\ fn.run = 1 /\ Len(fn.picks[1]) = MaxPicks
    /\ fn' = [fn EXCEPT !.run = 2, !.rng = fn.seed]
    /\ UNCHANGED <<awsmachines, machine, config, ec2, rec, node, nrec>>

PureNext ==
    \/ ParseProviderIDCall
    \/ FormatProviderIDCall
    \/ DescribeInstanceStatusCall
    \/ LaunchInstanceCall
    \/ reconcileStatusCall
    \/ LaunchCredentialsCall
    \/ LaunchInstanceWithGroupsCall
    \/ SeedCall

PureSpec == PureInit /\ [][PureNext]_vars

\* ---------------------------------------------------- claims on the codec

\* Position of the first "://" in s, 0 when there is none.
SchemeSeparator(s) ==
    IF \E i \in 1..(Len(s) - 2) : s[i] = ":" /\ s[i + 1] = "/" /\ s[i + 2] = "/"
    THEN CHOOSE i \in 1..(Len(s) - 2) :
             /\ s[i] = ":" /\ s[i + 1] = "/" /\ s[i + 2] = "/"
             /\ \A j \in 1..(i - 1) : ~(s[j] = ":" /\ s[j + 1] = "/" /\ s[j + 2] = "/")
    ELSE 0

\* The part of s after its scheme separator.
AfterScheme(s) == SubSeq(s, SchemeSeparator(s) + 3, Len(s))

MissingSeparator(s) == SchemeSeparator(s) = 0
TrailingSlash(s) == Len(s) > 0 /\ s[Len(s)] = "/"
EmptyInstanceID(s) == s = <<>> \/ TrailingSlash(s) \/ (~MissingSeparator(s) /\ AfterScheme(s) = <<>>)
TooFewSegments(s) == ~MissingSeparator(s) /\ Len(Split(AfterScheme(s), "/")) < 2

\* A malformed identity string, in the four ways the claim lists.
Malformed(s) ==
    MissingSeparator(s) \/ TrailingSlash(s) \/ EmptyInstanceID(s) \/ TooFewSegments(s)

\* ParseProviderID has returned for the input fn.s.
Parsed == fn.op = "ParseProviderID" /\ fn.pc # "call"

\* C15: for every malformed identity string ParseProviderID fails and
\* returns no ProviderID value.
C15_MalformedRejected ==
    (Parsed /\ Malformed(fn.s)) => fn.p = NoProviderID

\* The identity string was parsed and built again from the parsed fields.
Formatted == fn.op = "ParseProviderID" /\ fn.pc = "formatted"

\* s has the form the reconciler writes: "aws:///", a zone without slash, a
\* slash, an instance id without slash.
Canonical(s) ==
    /\ Len(s) >= 7
    /\ SubSeq(s, 1, 7) = <<"a", "w", "s", ":", "/", "/", "/">>
    /\ Len(Split(SubSeq(s, 8, Len(s)), "/")) = 2

\* C16, as stated: for every identity string ParseProviderID accepts,
\* building the string again from the parsed zone and instance id yields
\* the same string.
C16_RoundTrip_Original == Formatted => fn.f = fn.s

\* C16, amended: for every identity string of the form
\* "aws:///<zone>/<instance id>" that ParseProviderID accepts, building the
\* string again from the parsed zone and instance id yields the same string;
\* no other accepted string is reproduced.
C16_RoundTrip == Formatted => (fn.f = fn.s <=> Canonical(fn.s))

\* C16: "aws:///1a/1" was parsed (region "1", zone "1a", id "1") and built
\* again.
C16_Witness ==
    /\ Formatted
    /\ fn.s = <<"a", "w", "s", ":", "/", "/", "/", "1", "a", "/", "1">>
    /\ fn.p.Region = <<"1">>
    /\ fn.p.AvailabilityZone = <<"1", "a">>
    /\ fn.p.InstanceID = <<"1">>
    /\ fn.f = fn.s

\* ------------------------------------------- claims on the lifecycle, again

\* reconcileStatus made its DescribeInstance call (the record was not ready),
\* the call returned no error, and the backend has no instance of that id.
DescribedAbsentInstance ==
    /\ rec.pc \in {"persist", "done"}
    /\ rec.branch \in {"Provisioned", "Provisioning"}
    /\ rec.describeCalls = 2
    /\ rec.err = NoErr
    /\ ~DescribeInstance(ec2, FALSE,
                         ParseProviderID(Deref(rec.am.ProviderID)).InstanceID).exists

\* C17: when DescribeInstance returns exists = false and no error, the
\* invocation of the caller completes normally: it does not crash.
C17_NotFoundIsNotFatal == DescribedAbsentInstance => ~rec.panic

\* ---------------------------------------------------- claims on the adapter

\* DescribeInstanceStatus has returned.
StatusDescribed == fn.op = "DescribeInstanceStatus" /\ fn.pc = "return"

\* The backend has no record of the instance: the NotFound error code, or a
\* response without an instance.
BackendHasNoRecord ==
    \/ fn.resp.code = "InvalidInstanceID.NotFound"
    \/ fn.resp.code = "" /\ fn.resp.instances = {}

\* C18: DescribeInstanceStatus returns "terminated" and no error when the
\* backend has no record of the instance, the state name of the instance
\* when it exists, and an error and no state for any other backend error.
C18_DescribeInstanceStatus ==
    StatusDescribed =>
        /\ BackendHasNoRecord => fn.out = [state |-> "terminated", err |-> NoErr]
        /\ (fn.resp.code = "" /\ fn.resp.instances # {}) =>
               /\ fn.out.err = NoErr
               /\ \A k \in fn.resp.instances : fn.out.state = fn.e[k].state
        /\ fn.resp.code \notin {"", "InvalidInstanceID.NotFound"} =>
               /\ fn.out.err # NoErr
               /\ fn.out.state = ""

\* C18: the backend answered InvalidInstanceID.NotFound and the status
\* returned is "terminated".
C18_Witness ==
    /\ StatusDescribed
    /\ fn.resp.code = "InvalidInstanceID.NotFound"
    /\ fn.out.state = "terminated"
    /\ fn.out.err = NoErr

\* The ids of the subnets of the response that qualify: public-IP-on-launch
\* flag equal to the machine's PublicIP and at least one free address.
EligibleIds ==
    {fn.subnets[i].SubnetId : i \in
        {j \in 1..Len(fn.subnets) :
            /\ fn.subnets[j].MapPublicIpOnLaunch = fn.publicIP
            /\ fn.subnets[j].AvailableIpAddressCount >= 1}}

NodeNames == {"node1"}
MachineName == "m1"
RecordNames == AMNames \cup NodeNames

\* The providerID of the node: the id of instance 1 as the cloud provider
\* writes it, or a string ParseProviderID rejects.
NodeProviderIDs == {FormatProviderID(Zone, InstanceId(1)), MalformedID}

\* The error of line 100.
MissingInfraAnnotationError == Error("MissingInfraAnnotation", 0, "")

\* The reference setAWSMachineAnnotation and ensureMachineHasInfraRef build
\* for the AWSMachine of this name.
RefTo(name) == [Kind |-> "AWSMachine", Name |-> name]

\* A match that compares nothing: every AWSMachine with a provider id.
MatchingMachines_AnyProviderID(machines, n) ==
    {m \in DOMAIN machines : machines[m].exists /\ machines[m].ProviderID # Nil}

\* The AWSMachines of the list whose provider id equals that of the node.
MatchingMachines(machines, n) ==
    {m \in DOMAIN machines :
        /\ machines[m].exists
        /\ machines[m].ProviderID # Nil
        /\ Deref(machines[m].ProviderID) = n.ProviderID}

\* ensureAWSMachineForNode up to its first write, for the node n named nn:
\* the possible invocation records (the order of the list decides which
\* matching AWSMachine is taken).  pc tells the write that follows: "create"
\* (r.Create, then the annotation), "annotate" (the annotation only) or
\* "done" (return).  getInstanceAddresses of the nil instance panics.
ensureAWSMachineForNode(nn, n, machines, e, fault) ==
    LET base == [NodeIdle EXCEPT !.name = nn, !.n = n]
        AfterDescribe(d) ==
            IF d.err # NoErr
            THEN {[base EXCEPT !.pc = "done", !.describeCalls = 1, !.err = d.err]}
            ELSE IF d.instance = 0
            THEN {[base EXCEPT !.pc = "done", !.describeCalls = 1, !.panic = TRUE]}
            ELSE {[base EXCEPT
                     !.pc = "create", !.describeCalls = 1, !.target = nn,
                     !.am = [AbsentMachine EXCEPT
                               !.exists = TRUE,
                               !.ProviderID = Ptr(n.ProviderID),
                               !.Addresses = getInstanceAddresses(e, d.instance)]]}
        AfterParse(p) ==
            IF ~p.ok
            THEN {[base EXCEPT !.pc = "done", !.err = InvalidProviderIDError]}
            ELSE AfterDescribe(DescribeInstance(e, fault = "DescribeInstances", p.InstanceID))
        AfterList(matches) ==
            IF matches # {}
            THEN {[base EXCEPT !.pc = "annotate", !.target = m, !.matched = TRUE] :
                    m \in matches}
            ELSE AfterParse(ParseProviderID(n.ProviderID))
    IN  IF fault = "List"
        THEN {[base EXCEPT !.pc = "done", !.err = APIError]}
        ELSE AfterList(MatchingMachines(machines, n))

\* Faults the environment may inject into the reads of one invocation.
NodeFaults == {"none", "Get", "List", "DescribeInstances"}
InfraRefFaults == {"none", "GetAWSMachine", "GetMachine"}

\* NodeReconciler.Reconcile for node nn, from r.Get to its first write
\* (lines 73-90).
NodeReconcile(nn, fault) ==
    /\ nrec.pc = "idle"
    /\ \E o \in (IF fault = "Get"
                 THEN {[NodeIdle EXCEPT !.name = nn, !.pc = "done", !.err = APIError]}
                 ELSE IF ~node.exists
                 THEN {[NodeIdle EXCEPT !.name = nn, !.pc = "done"]}
                 ELSE IF node.cloudLink = Nil
                 THEN ensureAWSMachineForNode(nn, node, awsmachines, ec2, fault)
                 ELSE {[NodeIdle EXCEPT !.name = nn, !.n = node, !.pc = "infra"]}) :
           nrec' = o
    /\ UNCHANGED <<awsmachines, machine, config, ec2, rec, fn, node>>

\* r.Create of line 173: it fails when the request fails or an AWSMachine of
\* that name exists.
NodeCreate(ok) ==
    /\ nrec.pc = "create"
    /\ IF ok /\ ~awsmachines[nrec.target].exists
       THEN /\ awsmachines' = [awsmachines EXCEPT ![nrec.target] = nrec.am]
            /\ nrec' = [nrec EXCEPT !.pc = "annotate", !.created = TRUE]
       ELSE /\ nrec' = [nrec EXCEPT !.pc = "done", !.err = APIError]
            /\ UNCHANGED awsmachines
    /\ UNCHANGED <<machine, config, ec2, rec, fn, node>>

\* setAWSMachineAnnotation: PatchNode writes the annotation onto the stored
\* node; on success ensureAWSMachineForNode returns nil and Reconcile goes on
\* at line 91.
NodePatch(ok) ==
    /\ nrec.pc = "annotate"
    /\ IF ok /\ node.exists
       THEN /\ node' = [node EXCEPT !.cloudLink = Ptr(nrec.target)]
            /\ nrec' = [nrec EXCEPT !.pc = "infra", !.annotated = TRUE]
       ELSE /\ nrec' = [nrec EXCEPT !.pc = "done", !.err = APIError]
            /\ UNCHANGED node
    /\ UNCHANGED <<awsmachines, machine, config, ec2, rec, fn>>

\* Mutant: only the kind of the reference is compared.
InfraRefDiverges_KindOnly(ref, name) == ref.Kind # "AWSMachine"

\* The test of ensureMachineHasInfraRef (line 121), negated: the reference
\* of the Machine is not the AWSMachine of this name.
InfraRefDiverges(ref, name) == ~(ref.Kind = "AWSMachine" /\ ref.Name = name)

\* Lines 91-113 and ensureMachineHasInfraRef, on the annotations read at
\* line 82: with the Machine annotation present, the AWSMachine named by the
\* cloud annotation and the Machine are read, and the Machine is updated
\* when its infrastructure reference is not that AWSMachine.
NodeEnsureInfraRef(fault, ok) ==
    /\ nrec.pc = "infra"
    /\ LET Return(err) == nrec' = [nrec EXCEPT !.pc = "done", !.err = err]
           Ensure(name) ==
               IF fault = "GetAWSMachine" \/ ~awsmachines[name].exists
               THEN Return(APIError) /\ UNCHANGED machine
               ELSE IF fault = "GetMachine"
               THEN Return(APIError) /\ UNCHANGED machine
               ELSE IF ~InfraRefDiverges(machine.InfrastructureRef, name)
               THEN Return(NoErr) /\ UNCHANGED machine
               ELSE IF ok
               THEN /\ machine' = [machine EXCEPT !.InfrastructureRef = RefTo(name)]
                    /\ nrec' = [nrec EXCEPT !.pc = "done", !.updates = 1]
               ELSE Return(APIError) /\ UNCHANGED machine
       IN  IF nrec.n.machineLink = Nil
           THEN Return(NoErr) /\ UNCHANGED machine
           ELSE IF nrec.n.cloudLink = Nil
           THEN Return(MissingInfraAnnotationError) /\ UNCHANGED machine
           ELSE Ensure(Deref(nrec.n.cloudLink))
    /\ UNCHANGED <<awsmachines, config, ec2, rec, fn, node>>

\* The substrate takes the result of the invocation that returned.
NodeTakeResult ==
    /\ nrec.pc = "done"
    /\ nrec' = NodeIdle
    /\ UNCHANGED <<awsmachines, machine, config, ec2, rec, fn, node>>

\* A node with a providerID, with or without its two annotations; the
\* AWSMachine am1 absent or present with no provider id, that of the node or
\* another one; instance 1 running, dropped or never issued; the Machine
\* with no infrastructure reference, with am1 or with another AWSMachine.
NodeInit ==
    /\ awsmachines \in
         [RecordNames ->
            {AbsentMachine} \cup
            {[AbsentMachine EXCEPT !.exists = TRUE, !.ProviderID = id] :
               id \in {Nil, Ptr(FormatProviderID(Zone, InstanceId(1))), Ptr(ForeignID)}}]
    /\ ~awsmachines["node1"].exists
    /\ machine \in {[FailureMessage |-> FALSE, InfrastructureRef |-> ref] :
                      ref \in {NoRef, RefTo("am1"), RefTo("am0")}}
    /\ config = [Ready |-> FALSE, hasCloudConfig |-> FALSE]
    /\ ec2 \in {[k \in 1..MaxInstances |->
                   IF k = 1 THEN [state |-> st, public |-> FALSE, launchedFor |-> ""]
                   ELSE NoInstance] : st \in {"running", "gone", "none"}}
    /\ rec = Idle
    /\ fn = NoCall
    /\ node \in {[exists |-> TRUE, ProviderID |-> id, cloudLink |-> c, machineLink |-> m] :
                   id \in NodeProviderIDs, c \in {Nil, Ptr("am1")},
                   m \in {Nil, Ptr(MachineName)}}
    /\ nrec = NodeIdle

NodeNext ==
    \/ \E nn \in NodeNames, fault \in NodeFaults : NodeReconcile(nn, fault)
    \/ \E ok \in BOOLEAN : NodeCreate(ok)
    \/ \E ok \in BOOLEAN : NodePatch(ok)
    \/ \E fault \in InfraRefFaults, ok \in BOOLEAN : NodeEnsureInfraRef(fault, ok)
    \/ NodeTakeResult

NodeSpec == NodeInit /\ [][NodeNext]_vars

\* ------------------------------------------------- claims on node linking

\* The invocation found an AWSMachine with the provider id of the node, which
\* had no cloud annotation, and is past setAWSMachineAnnotation.
MatchFound ==
    /\ nrec.matched
    /\ nrec.pc \in {"infra", "done"}

\* The stored node carries the annotation referencing the matched AWSMachine.
LinkAttached == node.cloudLink = Ptr(nrec.target)

\* The invocation created no AWSMachine and called DescribeInstances never.
NothingCreatedNorDescribed ==
    /\ ~nrec.created
    /\ nrec.describeCalls = 0

NoMatchFound ==
    /\ nrec.pc = "done"
    /\ nrec.n.exists
    /\ nrec.n.cloudLink = Nil
    /\ ParseProviderID(nrec.n.ProviderID).ok
    /\ ~nrec.matched
    /\ nrec.err = NoErr

\* The invocation created the AWSMachine named after the node, with the
\* provider id of the node.
CreatedForNode ==
    /\ nrec.created
    /\ nrec.target = nrec.name
    /\ awsmachines[nrec.name].exists
    /\ awsmachines[nrec.name].ProviderID = Ptr(nrec.n.ProviderID)

\* C21: for a node with providerID X, no cloud annotation and no AWSMachine
\* with provider id X, one invocation creates one AWSMachine with provider
\* id X and the node gains the annotation referencing it.
C21_NoMatchCreatesAndLinks ==
    NoMatchFound =>
        /\ ~nrec.panic
        /\ CreatedForNode
        /\ nrec.annotated
        /\ LinkAttached

\* --------------------------------------- claims on the lifecycle, over time

\* An invocation on an object without a deletion marker has called
\* LaunchInstance and is at its last write.
Relaunching ==
    /\ rec.pc = "persist"
    /\ ~rec.orig.DeletionTimestamp
    /\ rec.launchCalls > 0

\* C22: after an invocation whose LaunchInstance call failed has returned,
\* no later invocation for the record without a deletion marker calls
\* LaunchInstance.
C22_LaunchFailureHaltsRelaunch == [](LaunchFailed => [](~Relaunching))

\* The branch the priority order gives for an object as read, with the
\* Config as read.
PriorityBranch(am, cfg) ==
    IF am.DeletionTimestamp THEN "Deleting"
    ELSE IF am.FailureMessage THEN "Failed"
    ELSE IF ~am.OwnerRef THEN "AwaitingOwner"
    ELSE IF am.ProviderID # Nil THEN "Provisioned"
    ELSE IF ~cfg.Ready THEN "AwaitingBootstrapReady"
    ELSE "Provisioning"

\* The six conditions under which an object as read may be launched.
Launchable(am, cfg) ==
    /\ ~am.DeletionTimestamp
    /\ ~am.FailureMessage
    /\ am.OwnerRef
    /\ am.ProviderID = Nil
    /\ cfg.Ready
    /\ cfg.hasCloudConfig

\* One invocation ran from r.Get to its last write, and r.Get returned the
\* object.
RanOnObject ==
    /\ rec.pc = "idle"
    /\ rec'.pc = "persist"
    /\ rec'.orig.exists
    /\ rec'.branch # "None"

\* C23: every invocation takes the first branch of the order Deleting,
\* Failed, AwaitingOwner, Provisioned, AwaitingBootstrapReady, Provisioning
\* whose guard holds (unless a read of the API server fails before);
\* LaunchInstance is called only when the object has no deletion marker, no
\* failure message, an owner, no provider id, and the Config is ready with a
\* cloud-config secret; an object with a deletion marker always takes the
\* Deleting branch.
C23_PriorityOrder ==
    [][RanOnObject =>
         /\ rec'.launchCalls > 0 => Launchable(rec'.orig, config)
         /\ rec'.orig.DeletionTimestamp => rec'.branch = "Deleting"
         /\ rec'.err # APIError => rec'.branch = PriorityBranch(rec'.orig, config)
         /\ rec'.err = APIError =>
              rec'.branch \in {"AwaitingOwner", "AwaitingBootstrapReady", "Provisioning"}
      ]_vars

\* An object with a deletion marker and a failure message ran the deletion
\* protocol.
C23_Witness ==
    /\ rec.pc = "persist"
    /\ rec.orig.DeletionTimestamp
    /\ rec.orig.FailureMessage
    /\ rec.branch = "Deleting"
    /\ rec.describeCalls = 1

\* The backend completes the shutdown of an instance for which terminate was
\* issued.
ShutdownCompletes(k) ==
    /\ ec2[k].state = "shutting-down"
    /\ InstanceTransition(k)

\* The lifecycle of one AWSMachine that has its owner, from creation (with no
\* provider id, or backfilled with one) to deletion, under fair scheduling:
\* the substrate re-invokes Reconcile again and again (a request that
\* returned an error or a delay is requeued), invocations in which every call
\* succeeds recur, every invocation returns and its result is taken, and the
\* backend completes shutdowns.
LiveFaults == {"none", "RunInstances", "DescribeInstances1", "TerminateInstances"}

LiveInit ==
    /\ awsmachines \in
         [AMNames -> {[AbsentMachine EXCEPT !.exists = TRUE, !.OwnerRef = TRUE,
                                            !.ProviderID = id] :
                        id \in {Nil, Ptr(ForeignID)}}]
    /\ machine = [FailureMessage |-> FALSE, InfrastructureRef |-> NoRef]
    /\ config = [Ready |-> FALSE, hasCloudConfig |-> TRUE]
    /\ ec2 = [k \in 1..MaxInstances |-> NoInstance]
    /\ rec = Idle
    /\ fn = NoCall
    /\ node = NoNode
    /\ nrec = NodeIdle

LiveNext ==
    \/ \E n \in AMNames, fault \in LiveFaults : Reconcile(n, fault)
    \/ \E ok \in BOOLEAN : ReconcileReturn(ok)
    \/ TakeResult
    \/ ConfigBecomesReady
    \/ \E n \in AMNames : DeleteAWSMachine(n)
    \/ \E k \in 1..MaxInstances : InstanceTransition(k)

\* Strong fairness of the invocations in which every call succeeds is written
\* out: Reconcile is enabled exactly when no invocation is in progress.
Fairness ==
    /\ \A n \in AMNames :
          []<>(rec.pc = "idle") => []<><<Reconcile(n, "none")>>_vars
    /\ SF_vars(ReconcileReturn(TRUE))
    /\ WF_vars(TakeResult)
    /\ SF_vars(ConfigBecomesReady)
    /\ \A k \in 1..MaxInstances : SF_vars(ShutdownCompletes(k))

LiveSpec == LiveInit /\ [][LiveNext]_vars /\ Fairness

\* AWSMachine n carries a deletion marker and the provider id of instance k,
\* which is running or stopped.
DeletingLive(n, k) ==
    /\ awsmachines[n].exists
    /\ awsmachines[n].DeletionTimestamp
    /\ awsmachines[n].ProviderID = Ptr(FormatProviderID(Zone, InstanceId(k)))
    /\ ec2[k].state \in {"running", "stopped"}

\* The finalizer is on the stored object n.
HasFinalizer(n) == awsmachines[n].exists /\ awsmachines[n].Finalizer

\* The invocation that just returned took the finalizer off an object that
\* names instance k.
FinalizerRemoved(k) ==
    /\ rec.pc = "done"
    /\ rec.branch = "Deleting"
    /\ rec.persisted
    /\ rec.orig.ProviderID = Ptr(FormatProviderID(Zone, InstanceId(k)))

\* C24: for an object with a deletion marker whose instance is running or
\* stopped, eventually the instance is terminated and the finalizer is
\* removed, and the finalizer is never removed before the backend reports
\* the instance as terminated.
C24_DeletionLivenessAndOrder ==
    \A n \in AMNames, k \in 1..MaxInstances :
        /\ [](DeletingLive(n, k) =>
                <>(ec2[k].state \in {"terminated", "gone"} /\ ~HasFinalizer(n)))
        /\ [](FinalizerRemoved(k) =>
                DescribeInstanceStatus(ec2, FALSE, InstanceId(k)).state = "terminated")

\* AWSMachine n has its owner and no deletion marker.
OwnedAndKept(n) ==
    /\ awsmachines[n].exists
    /\ awsmachines[n].OwnerRef
    /\ ~awsmachines[n].DeletionTimestamp

\* The backend can launch one more instance.
HasCapacity == \E k \in 1..MaxInstances : ec2[k].state = "none"

\* The stored object n has its provider id and is ready.
Converged(n) ==
    /\ awsmachines[n].exists
    /\ awsmachines[n].ProviderID # Nil
    /\ awsmachines[n].Ready

\* C25: an object that keeps its owner and gets no deletion marker, whose
\* Config becomes ready with a cloud-config secret, under fair re-invocation
\* with calls that succeed again and again and a backend that can launch,
\* eventually has its provider id set and ready = true, and stays so.
C25_Convergence ==
    \A n \in AMNames :
        ([]OwnedAndKept(n) /\ []HasCapacity) => <>[]Converged(n)

\* ---------------------------------------- claims on the lifecycle: errors

\* The invocation has returned, and one of its calls (a read of the API
\* server, the parsing of the provider id, a backend call) had returned an
\* error.
CallFailed ==
    /\ Returned
    /\ \/ rec.err # NoErr
       \/ rec.deleteErr.kind \in {"InvalidProviderID", "BackendError"}

\* C26: in every branch, the Deleting branch included, an error of the
\* parsing of the provider id, of a read or of a backend call is the error
\* result of the invocation.
C26_ErrorsPropagated == CallFailed => rec.reterr # NoErr

\* ------------------------------------------------ claims on reconcileStatus

\* reconcileStatus was applied and returned nil.
StatusRefreshed ==
    /\ fn.op = "reconcileStatus"
    /\ fn.pc = "return"
    /\ fn.out.err = NoErr
    /\ ~fn.out.panic

\* The state the backend e, of one instance slot, reports for the instance a
\* provider id names: that of the slot when the id is the slot's and the
\* backend still holds the instance, "terminated" otherwise.
ReportedState(e, pid) ==
    IF pid = Ptr(FormatProviderID(Zone, InstanceId(1))) /\ e[1].state \notin {"none", "gone"}
    THEN e[1].state
    ELSE "terminated"

\* C27: a successful reconcileStatus sets InstanceState to the state the
\* backend reported; when ready was false it calls DescribeInstance, replaces
\* the addresses by those of the instance and sets ready; when ready was true
\* it makes no second call and leaves addresses and ready as they were; no
\* other field changes.
C27_StatusRefresh ==
    StatusRefreshed =>
        /\ fn.out.am.InstanceState = ReportedState(fn.e, fn.am.ProviderID)
        /\ IF fn.am.Ready
           THEN /\ fn.out.describeCalls = 1
                /\ fn.out.am.Addresses = fn.am.Addresses
                /\ fn.out.am.Ready
           ELSE /\ fn.out.describeCalls = 2
                /\ fn.out.am.Addresses = getInstanceAddresses(fn.e, 1)
                /\ fn.out.am.Ready
        /\ fn.out.am = [fn.am EXCEPT !.InstanceState = fn.out.am.InstanceState,
                                     !.Addresses = fn.out.am.Addresses,
                                     !.Ready = fn.out.am.Ready]

\* An object that was not ready, with addresses of an earlier refresh, got
\* the addresses of its running instance and became ready.
C27_Witness ==
    /\ StatusRefreshed
    /\ ~fn.am.Ready
    /\ fn.am.Addresses = StaleAddresses
    /\ fn.out.am.Addresses # StaleAddresses
    /\ fn.out.am.InstanceState = "running"
    /\ fn.out.am.Ready

\* ------------------------------------- claims on the lifecycle: the guards

\* The invocation read an object without deletion marker, failure message
\* and owner reference, and has returned.
ReadAwaitingOwner ==
    /\ Returned
    /\ rec.branch # "None"
    /\ rec.orig.exists
    /\ ~rec.orig.DeletionTimestamp
    /\ ~rec.orig.FailureMessage
    /\ ~rec.orig.OwnerRef

\* C28: with no deletion marker, no failure and no owner resolvable,
\* Reconcile makes no backend call, launches nothing, writes nothing and
\* returns success with no requeue.
C28_AwaitingOwnerIsNoOp ==
    ReadAwaitingOwner =>
        /\ rec.branch = "AwaitingOwner"
        /\ NoBackendCall
        /\ rec.launched = 0
        /\ rec.persist = "none"
        /\ rec.am = rec.orig
        /\ rec.RequeueAfter = 0
        /\ rec.reterr = NoErr

\* An object whose Config is ready and that has no provider id, but no owner
\* yet, was left alone.
C28_Witness ==
    /\ ReadAwaitingOwner
    /\ rec.branch = "AwaitingOwner"
    /\ rec.orig.ProviderID = Nil
    /\ config.Ready
    /\ config.hasCloudConfig
    /\ rec.reterr = NoErr

\* The invocation took the Provisioning branch with a bootstrap secret that
\* has no key "cloud-config", and has returned.
ProvisioningWithoutCloudConfig ==
    /\ Returned
    /\ rec.branch = "Provisioning"
    /\ ~config.hasCloudConfig

\* C29: in the Provisioning branch, when the bootstrap secret lacks the key
\* "cloud-config", Reconcile returns an error (that of the missing key when
\* the secret was read), calls LaunchInstance zero times and leaves the
\* provider id unset.
C29_MissingCloudConfig ==
    ProvisioningWithoutCloudConfig =>
        /\ rec.reterr # NoErr
        /\ rec.reterr = rec.err
        /\ rec.err \in {MissingCloudConfigError, APIError}
        /\ rec.launchCalls = 0
        /\ rec.launched = 0
        /\ rec.am.ProviderID = Nil
        /\ Stored.exists => Stored.ProviderID = Nil

\* The secret was read, the key was missing, and the deferred patch stored
\* the finalizer only.
C29_Witness ==
    /\ ProvisioningWithoutCloudConfig
    /\ rec.reterr = MissingCloudConfigError
    /\ rec.persisted
    /\ Stored.exists
    /\ Stored.Finalizer
    /\ Stored.ProviderID = Nil

\* ------------------------------------------------- claims on credentials

\* The credentials of a launch were chosen.
CredentialsChosen == fn.op = "LaunchCredentials" /\ fn.pc = "return"

\* The key is in the secret with a non-empty value.
PresentNonEmpty(key) == key \in DOMAIN fn.data /\ fn.data[key] # ""

\* C30: the launch uses the credentials of the referenced secret exactly
\* when the secret is read and both AWS_ACCESS_KEY_ID and
\* AWS_SECRET_ACCESS_KEY are present and non-empty; otherwise it uses the
\* default credentials, and a partial pair is no error: the only error is a
\* failing read of the secret.
C30_CredentialsBothOrNeither ==
    CredentialsChosen =>
        /\ fn.out.credentials.kind = "static" <=>
              /\ fn.secretRef # Nil
              /\ ~fn.getFails
              /\ \A key \in CredentialKeys : PresentNonEmpty(key)
        /\ fn.out.credentials.kind = "static" =>
              /\ fn.out.credentials.id = fn.data["AWS_ACCESS_KEY_ID"]
              /\ fn.out.credentials.secret = fn.data["AWS_SECRET_ACCESS_KEY"]
        /\ fn.out.credentials.kind # "static" => fn.out.credentials = DefaultCredentials
        /\ fn.out.err # NoErr <=> (fn.secretRef # Nil /\ fn.getFails)

\* A secret with the access key only: the default credentials and no error.
C30_Witness ==
    /\ CredentialsChosen
    /\ fn.secretRef # Nil
    /\ PresentNonEmpty("AWS_ACCESS_KEY_ID")
    /\ ~PresentNonEmpty("AWS_SECRET_ACCESS_KEY")
    /\ fn.out.credentials = DefaultCredentials
    /\ fn.out.err = NoErr

\* ----------------------------------------------- claims on security groups

\* LaunchInstance was called with security group names, the lookup
\* succeeded, and no group of the backend has one of the names.
NoNameResolved ==
    /\ fn.op = "LaunchInstanceWithGroups"
    /\ fn.pc = "return"
    /\ Len(fn.names) > 0
    /\ ~fn.fails
    /\ \A g \in 1..Len(fn.groups), i \in 1..Len(fn.names) :
          fn.groups[g].GroupName # fn.names[i]

\* LaunchInstance was called without security group names.
NoNameSupplied ==
    /\ fn.op = "LaunchInstanceWithGroups"
    /\ fn.pc = "return"
    /\ Len(fn.names) = 0

\* C31: when security group names were supplied and none resolved to a group
\* id, LaunchInstance returns an error without calling RunInstances; when no
\* names were supplied it does not fail for that reason.
C31_NoSecurityGroupResolved ==
    /\ NoNameResolved => (fn.out.err # NoErr /\ fn.out.runCalls = 0)
    /\ NoNameSupplied => (fn.out.err = NoErr /\ fn.out.runCalls = 1)

\* ------------------------------------ claims on the infrastructure reference

\* The invocation read a node with both annotations and returns from the
\* check of the infrastructure reference without error.
InfraRefChecked ==
    /\ nrec.pc = "infra"
    /\ nrec'.pc = "done"
    /\ nrec'.err = NoErr
    /\ nrec.n.cloudLink # Nil
    /\ nrec.n.machineLink # Nil

\* C32: when the node carries both annotations, after a successful
\* invocation the infrastructure reference of the Machine has kind
\* AWSMachine and the name of the linked AWSMachine; an update is issued
\* exactly when the reference was another one, so that an invocation on a
\* healed reference issues none.
C32_InfraRefHealing ==
    [][InfraRefChecked =>
         /\ machine'.InfrastructureRef.Kind = "AWSMachine"
         /\ machine'.InfrastructureRef.Name = Deref(nrec.n.cloudLink)
         /\ nrec'.updates = 1 <=> machine.InfrastructureRef # RefTo(Deref(nrec.n.cloudLink))
         /\ nrec'.updates = 0 <=> machine' = machine
         /\ nrec'.updates \in {0, 1}
      ]_vars

\* A reference to another AWSMachine was replaced by one update.
C32_Witness ==
    /\ nrec.pc = "done"
    /\ nrec.err = NoErr
    /\ nrec.n.cloudLink = Ptr("am1")
    /\ nrec.n.machineLink # Nil
    /\ nrec.updates = 1
    /\ machine.InfrastructureRef = RefTo("am1")

\* ---------------------------- claims on the deletion of unprovisioned objects

\* The invocation ran on an object with a deletion marker, the finalizer and
\* no provider id.
DeletedUnprovisioned ==
    /\ Returned
    /\ rec.branch = "Deleting"
    /\ rec.orig.exists
    /\ rec.orig.DeletionTimestamp
    /\ rec.orig.Finalizer
    /\ rec.orig.ProviderID = Nil

\* C33: on an object with a deletion marker, the finalizer and no provider
\* id, the invocation does not crash, makes no terminate call, and removes
\* the finalizer (when its update succeeds).
C33_UnprovisionedDeletes ==
    DeletedUnprovisioned =>
        /\ ~rec.panic
        /\ rec.terminateCalls = 0
        /\ ~rec.am.Finalizer
        /\ rec.persist = "update"
        /\ rec.persisted => ~FinalizerKept

\* ------------------------------------------ the two reconcilers together

\* The kubelet of instance k, once the instance runs, registers the node
\* with the provider id of the instance.
NodeRegisters(nn, k) ==
    /\ ~node.exists
    /\ ec2[k].state = "running"
    /\ node' = [exists |-> TRUE, ProviderID |-> FormatProviderID(Zone, InstanceId(k)),
                cloudLink |-> Nil, machineLink |-> Nil]
    /\ UNCHANGED <<awsmachines, machine, config, ec2, rec, fn, nrec>>

\* An AWSMachine with its owner and a ready Config is provisioned by
\* AWSMachineReconciler while NodeReconciler links the node of the instance:
\* the workers of the two controllers run side by side, each between its
\* reads and its writes.
LinkInit ==
    /\ awsmachines =
         [n \in RecordNames |->
            IF n \in AMNames
            THEN [AbsentMachine EXCEPT !.exists = TRUE, !.OwnerRef = TRUE]
            ELSE AbsentMachine]
    /\ machine = [FailureMessage |-> FALSE, InfrastructureRef |-> NoRef]
    /\ config = [Ready |-> TRUE, hasCloudConfig |-> TRUE]
    /\ ec2 = [k \in 1..MaxInstances |-> NoInstance]
    /\ rec = Idle
    /\ fn = NoCall
    /\ node = NoNode
    /\ nrec = NodeIdle

LinkNext ==
    \/ \E n \in RecordNames : Reconcile(n, "none")
    \/ \E ok \in BOOLEAN : ReconcileReturn(ok)
    \/ TakeResult
    \/ \E k \in 1..MaxInstances : InstanceTransition(k)
    \/ \E nn \in NodeNames, k \in 1..MaxInstances : NodeRegisters(nn, k)
    \/ \E nn \in NodeNames : NodeReconcile(nn, "none")
    \/ \E ok \in BOOLEAN : NodeCreate(ok)
    \/ \E ok \in BOOLEAN : NodePatch(ok)
    \/ \E ok \in BOOLEAN : NodeEnsureInfraRef("none", ok)
    \/ NodeTakeResult

LinkSpec == LinkInit /\ [][LinkNext]_vars

\* Two AWSMachines carry the same provider id.
SharedProviderID(a, b) ==
    /\ a # b
    /\ awsmachines[a].exists
    /\ awsmachines[b].exists
    /\ awsmachines[a].ProviderID # Nil
    /\ awsmachines[a].ProviderID = awsmachines[b].ProviderID

\* C34: in every reachable state, whatever the interleaving of the two
\* reconcilers and whatever write failed, no two AWSMachines carry the same
\* provider id.
C34_UniqueProviderID ==
    \A a \in RecordNames, b \in RecordNames : ~SharedProviderID(a, b)

\* The string 'aws:///<zone>/<instance id>' of the k-th instance.
WrittenFor(k) == <<"a", "w", "s", ":", "/", "/", "/">> \o Zone \o <<"/">> \o InstanceId(k)

\* The state DescribeInstanceStatus reports for the launched instance k.
StateOf(k) == IF ec2[k].state = "gone" THEN "terminated" ELSE ec2[k].state

\* The Provisioning branch of the invocation on n has launched an instance:
\* the provider id in memory is the string of that instance, ParseProviderID
\* accepts it and returns the zone and the id of the instance, which the
\* backend launched for n.
WrittenParsesBack(n) ==
    rec'.launched # 0 =>
        /\ rec'.branch = "Provisioning"
        /\ rec'.am.ProviderID = Ptr(WrittenFor(rec'.launched))
        /\ ParseProviderID(Deref(rec'.am.ProviderID)).ok
        /\ ParseProviderID(Deref(rec'.am.ProviderID)).AvailabilityZone = Zone
        /\ ParseProviderID(Deref(rec'.am.ProviderID)).InstanceID = InstanceId(rec'.launched)
        /\ ec2'[rec'.launched].launchedFor = n

\* The Provisioned or Deleting branch of the invocation on n, whose stored
\* provider id is the string written for instance k, acts on instance k: the
\* state it reads is that of k, the instance it terminates is k, and no
\* other instance changes.
ActsOnLaunched(n, k) ==
    (/\ awsmachines[n].ProviderID = Ptr(WrittenFor(k))
     /\ rec'.branch \in {"Provisioned", "Deleting"}) =>
        /\ ec2[k].launchedFor = n
        /\ \A j \in DOMAIN ec2 : j # k => ec2'[j] = ec2[j]
        /\ (rec'.branch = "Provisioned" /\ rec'.err = NoErr /\ ~rec'.panic) =>
               rec'.am.InstanceState = StateOf(k)
        /\ (rec'.branch = "Deleting" /\ rec'.observed # "") =>
               rec'.observed = StateOf(k)
        /\ (rec'.terminateCalls = 1 /\ rec'.deleteErr = RequeueAfterError) =>
               /\ ec2[k].state \in LiveStates
               /\ ec2'[k].state = "shutting-down"

\* C35: the provider id written by the Provisioning branch is accepted by
\* ParseProviderID and parses back to the zone and the instance id of the
\* instance LaunchInstance returned, and an invocation that takes the
\* Provisioned or Deleting branch on a record storing that string describes
\* and terminates that instance and no other.
C35_WrittenIdentityParsesBack ==
    [][\A n \in AMNames :
          (rec.pc = "idle" /\ rec'.pc = "persist" /\ rec'.name = n) =>
              /\ WrittenParsesBack(n)
              /\ \A k \in 1..MaxInstances : ActsOnLaunched(n, k)]_vars

\* A record whose first launch was never stored has launched a second
\* instance, and the Deleting branch has terminated the second one, whose
\* string the record stores, while the first one is still alive.
C35_Witness ==
    /\ rec.pc = "persist"
    /\ rec.branch = "Deleting"
    /\ rec.terminateCalls = 1
    /\ rec.deleteErr = RequeueAfterError
    /\ rec.orig.ProviderID = Ptr(WrittenFor(2))
    /\ ec2[2].state = "shutting-down"
    /\ ec2[2].launchedFor = rec.name
    /\ ec2[1].state \in LiveStates

\* An invocation has returned that read a node with the logical-machine-link
\* annotation and without the cloud-link annotation, and none of its API and
\* backend calls failed.
ReturnedForHalfLinkedNode ==
    /\ nrec.pc = "done"
    /\ nrec.n.exists
    /\ nrec.n.machineLink # Nil
    /\ nrec.n.cloudLink = Nil
    /\ ~nrec.panic
    /\ nrec.err \notin {APIError, BackendError, InvalidProviderIDError}

\* C36: an invocation on a node that carries the logical-machine-link
\* annotation and not yet the cloud-link annotation, all of whose calls
\* succeed, attaches the cloud-link annotation and returns without error.
C36_HalfLinkedNodeSucceeds ==
    ReturnedForHalfLinkedNode =>
        /\ nrec.annotated
        /\ node.cloudLink # Nil
        /\ nrec.err = NoErr

====
